---------------------------- MODULE Spec2Model ----------------------------
(***************************************************************************)
(* State-machine model of sjtu-canvas-downloader.                          *)
(*                                                                         *)
(*   SpecLogin : scripts/sjtu_login  (login, login_attempt,                *)
(*               login_with_pwd, load_cookies, save_cookies)               *)
(*   SpecToken : scripts/canvas.py   (CanvasHelper.refresh,                *)
(*               get_access_token, _redirect_request)                      *)
(*   SpecSync  : scripts/canvas.py   (CourseHelper.refresh, update) and    *)
(*               scripts/core.py     (Manager.from_json, Manager.refresh)  *)
(*   SpecVideo : scripts/canvas.py   (CourseHelper.get_video_url)          *)
(*   SpecManifest : scripts/core.py  (Manager._generate_aria2_txt)         *)
(*   SpecSrt   : scripts/utils.py    (format_srt_timestamp)                *)
(*   SpecLoginFair : SpecLogin with the step after errno 0 taken           *)
(*                                                                         *)
(* Every HTTP request, operator prompt and cookie-store access is appended *)
(* to a log, so that the order and number of the interactions can be       *)
(* stated.  A form field / query value is the sequence of values sent for  *)
(* its key (a Python str is one value, a parse_qs list is its elements).   *)
(***************************************************************************)
EXTENDS Integers, Sequences, FiniteSets, TLC

VARIABLES
    pc,            \* position of login(): see the actions
    method,        \* argument `method` of login
    cookie_path,   \* argument `cookie_path` of login is truthy
    store,         \* the cookie file at cookie_path
    cookies,       \* local `cookies` of login / login_with_pwd
    url,           \* data['url']: the resolved URL of the probe
    params,        \* data['params']
    current_user,  \* login_with_pwd: current_user
    user,          \* login_with_pwd: user
    pwd,           \* login_with_pwd: pwd
    captcha,       \* login_with_pwd: captcha
    session,       \* the session login returned (NoSession before)
    error,         \* the exception that ended login (NoError before)
    log,           \* the interactions so far, in order
    tpc,           \* position of CanvasHelper.refresh / get_access_token
    subjects,      \* CanvasHelper._subjects
    idx,           \* index of the subject refresh is working on
    hop_url,       \* get_access_token: url
    hop_payload,   \* get_access_token: payload
    terror,        \* the exception that ended refresh
    tlog,          \* the requests of the token exchange so far, in order
    phase,         \* "init": refresh(True) of __init__; "again": a later refresh
    optimize,      \* the interpreter runs with -O: assert statements are skipped
    cpc,           \* position of CourseHelper.refresh / update, Manager.refresh
    has_courses,   \* the CourseHelper has the attribute _courses
    courses,       \* CourseHelper._courses
    updated,       \* the list refresh / update iterates over
    current_map,   \* update: current, in the order of the dict
    ci,            \* index of the course the loop is at
    cerror,        \* the exception that ended the call
    clog,          \* the calls of the servers so far, in order
    mgr,           \* Manager: subjects and the subject refresh is at
    fpc,           \* a function is about to be applied / was applied
    fin,           \* the arguments of the function
    fout           \* its result

lvars == <<pc, method, cookie_path, store, cookies, url, params,
           current_user, user, pwd, captcha, session, error, log>>
tvars == <<tpc, subjects, idx, hop_url, hop_payload, terror, tlog, phase, optimize>>
cvars == <<cpc, has_courses, courses, updated, current_map, ci, cerror, clog, mgr>>
fvars == <<fpc, fin, fout>>
vars == <<lvars, tvars, cvars, fvars>>

-----------------------------------------------------------------------------
(* Bounds of the model.                                                    *)

\* submits of one login_with_pwd call the model follows
MaxSubmits == 3
\* credential prompts of one login_with_pwd call the model follows
MaxPrompts == 2
\* subjects the favourites listing returns at most
MaxSubjects == 2
\* courses of one subject, in a listing and in a previous list
MaxCourses == 2
\* descriptors in the answer of one media resolution
MaxDescriptors == 3

-----------------------------------------------------------------------------
(* Values.                                                                 *)

IdpHost == "jaccount.sjtu.edu.cn"
ClientHost == "oc.sjtu.edu.cn"
JAAuthCookie == "JAAuthCookie"

Url(netloc, path, query) == [netloc |-> netloc, path |-> path, query |-> query]
NoUrl == Url("", "", <<>>)
ClientUrl == Url(ClientHost, "/login/openid_connect", <<>>)
CaptchaUrl == Url(IdpHost, "/jaccount/captcha", <<>>)
UloginUrl == Url(IdpHost, "/jaccount/ulogin", <<>>)

Cookie(name, value) == [name |-> name, value |-> value]
\* a Python value held by `cookies`: None, a dict or a RequestsCookieJar
PyNone == [type |-> "None", items |-> <<>>]
PyDict(items) == [type |-> "dict", items |-> items]
PyJar(items) == [type |-> "jar", items |-> items]

NoForm == <<>>
NoSession == [id |-> "none", cookies |-> <<>>]
NoError == [kind |-> "none", payload |-> <<>>]
Err(kind, payload) == [kind |-> kind, payload |-> payload]

\* one interaction: its kind, the url requested, the form or query sent (for
\* a prompt, the operator's input), the cookies attached (for a store access
\* or a return, the cookies concerned) and the response received
Event(ev, u, form, ck, resp) ==
    [ev |-> ev, url |-> u, form |-> form, cookies |-> ck, resp |-> resp]
NoResp == <<>>

\* dict merge {**a, **b}: the keys of b win
Merge(a, b) ==
    [k \in (DOMAIN a) \cup (DOMAIN b) |-> IF k \in DOMAIN b THEN b[k] ELSE a[k]]


-----------------------------------------------------------------------------
(* Pure helpers of the login flow.                                         *)

\* requests.Response.raise_for_status: HTTPError for a 4xx or 5xx status
RaiseForStatus(status) == status >= 400 /\ status < 600

\* the values of key k in a query string, in order (blank values dropped)
RECURSIVE QsValues(_, _)
QsValues(q, k) ==
    IF q = <<>> THEN <<>>
    ELSE (IF Head(q)[1] = k /\ Head(q)[2] # "" THEN <<Head(q)[2]>> ELSE <<>>)
         \o QsValues(Tail(q), k)

\* urllib.parse.parse_qs: key -> list of its values
parse_qs(q) ==
    [k \in {q[i][1] : i \in {j \in DOMAIN q : q[j][2] # ""}} |-> QsValues(q, k)]

\* {cookie.name: cookie.value for cookie in jar}: the last cookie of a name wins
JarDict(items) ==
    [n \in {items[i].name : i \in DOMAIN items} |->
        items[CHOOSE i \in DOMAIN items :
                 /\ items[i].name = n
                 /\ \A j \in DOMAIN items : items[j].name = n => j <= i].value]

\* load_cookies: the JAAuthCookie of the cookie file as a dict, or None
load_cookies(path, st) ==
    IF path /\ st.state # "absent"
    THEN IF st.state = "corrupt"
         THEN PyNone
         ELSE LET d == JarDict(st.jar)
              IN IF JAAuthCookie \in DOMAIN d /\ d[JAAuthCookie] # ""
                 THEN PyDict(<<Cookie(JAAuthCookie, d[JAAuthCookie])>>)
                 ELSE PyNone
    ELSE PyNone

\* the first cookie of the jar with this name, as a jar of at most one cookie
FirstNamed(items, name) ==
    LET S == {i \in DOMAIN items : items[i].name = name}
    IN IF S = {} THEN <<>>
       ELSE <<items[CHOOSE i \in S : \A j \in S : i <= j]>>

\* mutant: the whole jar is saved, not the JAAuthCookie alone
save_cookies_WholeJar(ck, st) ==
    IF ck.type = "None"
    THEN [raised |-> "TypeError", written |-> FALSE, store |-> st]
    ELSE IF ck.type = "dict" /\ ck.items # <<>>
    THEN [raised |-> "AttributeError", written |-> FALSE, store |-> st]
    ELSE [raised |-> "none", written |-> TRUE,
          store |-> [state |-> "ok", jar |-> ck.items]]

\* save_cookies: a new cookie file holding the first JAAuthCookie of `ck`.
\* Iterating None raises TypeError, the keys of a dict have no .name.
save_cookies(ck, st) ==
    IF ck.type = "None"
    THEN [raised |-> "TypeError", written |-> FALSE, store |-> st]
    ELSE IF ck.type = "dict" /\ ck.items # <<>>
    THEN [raised |-> "AttributeError", written |-> FALSE, store |-> st]
    ELSE [raised |-> "none", written |-> TRUE,
          store |-> [state |-> "ok", jar |-> FirstNamed(ck.items, JAAuthCookie)]]

\* mutant: the resolved location is compared with another host
IdpNetloc_OtherHost == "login.sjtu.edu.cn"

\* the host login_attempt compares the resolved location with
IdpNetloc == IdpHost

\* login_attempt after the GET: raises, or code 200 with the probe's session,
\* or code 401 with the resolved url and the parameters of the challenge
login_attempt(resp) ==
    LET none == [raised |-> "none", code |-> 0, session |-> NoSession,
                 url |-> NoUrl, params |-> NoForm]
    IN IF resp.net # "ok"
       THEN [none EXCEPT !.raised = "Timeout"]
       ELSE IF RaiseForStatus(resp.status) \/ resp.status # 200
       THEN [none EXCEPT !.raised = "HTTPError"]
       ELSE IF resp.url.netloc # IdpNetloc
       THEN [none EXCEPT !.code = 200,
                         !.session = [id |-> "probe", cookies |-> resp.set_cookies]]
       ELSE IF ~resp.anchor.present
       THEN [none EXCEPT !.raised = "AttributeError"]
       ELSE LET link == parse_qs(resp.anchor.query)
                uuid == IF "uuid" \in DOMAIN link THEN link["uuid"][1] ELSE ""
            IN [none EXCEPT !.code = 401, !.url = resp.url,
                            !.params = Merge([uuid |-> <<uuid>>],
                                             parse_qs(resp.url.query))]

\* mutant: without cookies an empty session is built
login_finish_EmptySession(ck, path, st) ==
    [raised |-> "none", written |-> FALSE, store |-> st,
     session |-> [id |-> "login", cookies |-> <<>>]]

\* login, lines 78-82: save the cookies when a cookie path is given, then
\* build the session that is returned
login_finish(ck, path, st) ==
    LET s == IF path THEN save_cookies(ck, st)
             ELSE [raised |-> "none", written |-> FALSE, store |-> st]
    IN IF s.raised # "none"
       THEN [raised |-> s.raised, written |-> FALSE, store |-> s.store,
             session |-> NoSession]
       ELSE IF ck.type = "None"
       THEN [raised |-> "TypeError", written |-> s.written, store |-> s.store,
             session |-> NoSession]
       ELSE [raised |-> "none", written |-> s.written, store |-> s.store,
             session |-> [id |-> "login", cookies |-> ck.items]]

\* int(data.get('errno', 1))
Errno(data) == IF data.has_errno THEN data.errno ELSE 1

\* mutant: an unknown code is taken for a wrong captcha and retried
parse_login_state_UnknownRetries(data) ==
    IF Errno(data) = 0 THEN 0
    ELSE IF data.code = "WRONG_USER_OR_PASSWORD" THEN 1
    ELSE 2

\* parse_login_state without its request: 0 (success, the url is requested
\* next), 1 (wrong credentials), 2 (wrong captcha) or -1 (raises)
parse_login_state(data) ==
    IF Errno(data) = 0 THEN 0
    ELSE IF data.code = "WRONG_USER_OR_PASSWORD" THEN 1
    ELSE IF data.code = "WRONG_CAPTCHA" THEN 2
    ELSE -1

\* mutant: an empty answer is not replaced by the remembered username
PromptedUser_NoFallback(input, current) == input

\* login_with_pwd, lines 179-184: the username used after the prompt
PromptedUser(input, current) == IF input # "" THEN input ELSE current

\* mutant: a wrong captcha restarts from the credential prompt
AfterState_CaptchaAsksCredentials(state) ==
    CASE state = 0 -> "finalize"
      [] state = 1 -> "ask_user"
      [] state = 2 -> "ask_user"
      [] OTHER -> "failed"

\* mutant: a wrong captcha ends the login
AfterState_WrongCaptchaFails(state) ==
    CASE state = 0 -> "finalize"
      [] state = 1 -> "ask_user"
      [] OTHER -> "failed"

\* login_with_pwd, lines 194-199: where the loop goes after a state code
AfterState(state) ==
    CASE state = 0 -> "finalize"
      [] state = 1 -> "ask_user"
      [] state = 2 -> "get_captcha"
      [] OTHER -> "failed"

\* send_login_request: the payload of the submit
Payload(u, p, c, ps) ==
    Merge([user |-> <<u>>, pass |-> <<p>>, captcha |-> <<c>>, lt |-> <<"p">>], ps)

\* mutant: the client url is requested instead of the resolved one
FinalizeUrl_Client(client, resolved) == client

\* parse_login_state, line 146: the url requested after errno 0
FinalizeUrl(client, resolved) == resolved

\* login_with_pwd, line 195: the cookies returned are those of the submit
ReturnedCookies(submit_cookies, finalize_cookies) == submit_cookies


-----------------------------------------------------------------------------
(* Inputs of the login flow: the arguments of login, the cookie file, the  *)
(* operator's answers and the responses of the servers.                    *)

Methods == {"pwd", "qr", "other"}

StoreInputs ==
    { [state |-> "absent", jar |-> <<>>],
      [state |-> "corrupt", jar |-> <<>>],
      [state |-> "ok", jar |-> <<Cookie("JSESSIONID", "s0"), Cookie(JAAuthCookie, "v1")>>] }

Resp(net, status) == [net |-> net, status |-> status]

ChallengeUrl(query) == Url(IdpHost, "/jaccount/jalogin", query)
Anchor(present, query) == [present |-> present, query |-> query]

ProbeResp(net, status, u, anchor, set_cookies) ==
    [net |-> net, status |-> status, url |-> u, anchor |-> anchor,
     set_cookies |-> set_cookies]

ProbeResponses ==
    { ProbeResp("timeout", 0, NoUrl, Anchor(FALSE, <<>>), <<>>),
      ProbeResp("ok", 503, ClientUrl, Anchor(FALSE, <<>>), <<>>),
      ProbeResp("ok", 204, ClientUrl, Anchor(FALSE, <<>>), <<>>),
      ProbeResp("ok", 200, Url(ClientHost, "/", <<>>), Anchor(FALSE, <<>>),
                <<Cookie("_normandy_session", "n1")>>),
      ProbeResp("ok", 200, ChallengeUrl(<<<<"sid", "s1">>>>), Anchor(FALSE, <<>>), <<>>) }
    \cup
    { ProbeResp("ok", 200, ChallengeUrl(q), Anchor(TRUE, a), <<>>) :
        q \in { <<<<"sid", "s1">>>>, <<<<"sid", "s1">>, <<"uuid", "u2">>>> },
        a \in { <<<<"lang", "en">>, <<"uuid", "u1">>>> } }

UserInputs == {"", "alice", "bob"}
PwdInputs == {"p1", "p2"}
CaptchaInputs == {"abcd"}

\* the captcha response: its transport outcome and whether the body is an image
CaptchaResponses ==
    { [net |-> "connerr", status |-> 0, image |-> FALSE],
      [net |-> "ok", status |-> 404, image |-> FALSE],
      [net |-> "ok", status |-> 200, image |-> FALSE],
      [net |-> "ok", status |-> 200, image |-> TRUE] }

LoginData(has_errno, errno, code) ==
    [has_errno |-> has_errno, errno |-> errno, code |-> code]

SubmitResponses ==
    { [net |-> "timeout", status |-> 0, data |-> LoginData(FALSE, 0, ""), set_cookies |-> <<>>],
      [net |-> "ok", status |-> 500, data |-> LoginData(FALSE, 0, ""), set_cookies |-> <<>>] }
    \cup
    { [net |-> "ok", status |-> 200, data |-> LoginData(TRUE, 0, ""),
       set_cookies |-> <<Cookie("JSESSIONID", "s2"), Cookie(JAAuthCookie, "v2"),
                         Cookie(JAAuthCookie, "v3")>>],
      [net |-> "ok", status |-> 200, data |-> LoginData(TRUE, 0, "WRONG_CAPTCHA"),
       set_cookies |-> <<>>] }
    \cup
    { [net |-> "ok", status |-> 200, data |-> LoginData(TRUE, 1, c), set_cookies |-> <<>>] :
        c \in {"WRONG_USER_OR_PASSWORD", "WRONG_CAPTCHA", "LOCKED"} }
    \cup
    { [net |-> "ok", status |-> 200, data |-> LoginData(FALSE, 0, ""), set_cookies |-> <<>>] }

FinalizeResponses ==
    { [net |-> "timeout", status |-> 0, set_cookies |-> <<>>],
      [net |-> "ok", status |-> 503, set_cookies |-> <<>>],
      [net |-> "ok", status |-> 304, set_cookies |-> <<>>],
      [net |-> "ok", status |-> 200, set_cookies |-> <<Cookie("JSESSIONID", "s3")>>] }

\* how many events of a kind the log holds
Count(l, ev) == Cardinality({i \in DOMAIN l : l[i].ev = ev})

-----------------------------------------------------------------------------
(* login: scripts/sjtu_login/core.py, pwd_login.py, cookies_manager.py     *)

NoManager == [subjects |-> <<>>, si |-> 0]

InitCourse0 ==
    /\ cpc = "idle"
    /\ has_courses = FALSE
    /\ courses = <<>>
    /\ updated = <<>>
    /\ current_map = <<>>
    /\ ci = 0
    /\ cerror = NoError
    /\ clog = <<>>
    /\ mgr = NoManager

InitFun0 ==
    /\ fpc = "idle"
    /\ fin = <<>>
    /\ fout = <<>>

InitToken0 ==
    /\ tpc = "idle"
    /\ subjects = <<>>
    /\ idx = 0
    /\ hop_url = <<>>
    /\ hop_payload = NoForm
    /\ terror = NoError
    /\ tlog = <<>>
    /\ phase = "init"
    /\ optimize = FALSE

InitLogin ==
    /\ pc = "start"
    /\ method \in Methods
    /\ cookie_path \in BOOLEAN
    /\ store \in StoreInputs
    /\ (~cookie_path => store.state = "absent")
    /\ cookies = PyNone
    /\ url = NoUrl
    /\ params = NoForm
    /\ current_user = ""
    /\ user = ""
    /\ pwd = ""
    /\ captcha = ""
    /\ session = NoSession
    /\ error = NoError
    /\ log = <<>>
    /\ InitToken0
    /\ InitCourse0
    /\ InitFun0

SaveEvent(f) ==
    IF f.written THEN <<Event("save", NoUrl, NoForm, f.store.jar, NoResp)>> ELSE <<>>
ReturnEvent(s) == Event("return", NoUrl, NoForm, s.cookies, [id |-> s.id])

\* login, line 61: cookies = load_cookies(cookie_path)
LoadCookies ==
    /\ UNCHANGED <<tvars, cvars, fvars>>
    /\ pc = "start"
    /\ cookies' = load_cookies(cookie_path, store)
    /\ log' = Append(log, Event("load", NoUrl, NoForm, cookies'.items,
                                [path |-> cookie_path, state |-> store.state]))
    /\ pc' = "probe"
    /\ UNCHANGED <<method, cookie_path, store, url, params, current_user, user,
                   pwd, captcha, session, error>>

\* login, lines 62-84 up to the first prompt: login_attempt and the dispatch
\* on its code and on the method
Probe ==
    /\ UNCHANGED <<tvars, cvars, fvars>>
    /\ pc = "probe"
    /\ \E resp \in ProbeResponses :
         LET r == login_attempt(resp)
             ev == Event("probe", ClientUrl, NoForm, cookies.items, resp)
         IN IF r.raised # "none"
            THEN /\ pc' = "failed"
                 /\ error' = Err(r.raised, <<>>)
                 /\ log' = Append(log, ev)
                 /\ UNCHANGED <<store, url, params, session>>
            ELSE IF r.code = 200
            THEN /\ pc' = "returned"
                 /\ session' = r.session
                 /\ log' = log \o <<ev, ReturnEvent(r.session)>>
                 /\ UNCHANGED <<store, url, params, error>>
            ELSE IF method = "pwd"
            THEN /\ pc' = "ask_user"
                 /\ url' = r.url
                 /\ params' = r.params
                 /\ log' = Append(log, ev)
                 /\ UNCHANGED <<store, session, error>>
            ELSE IF method = "qr"
            THEN /\ pc' = "failed"
                 /\ error' = Err("Exception", <<"QR code login not implemented yet.">>)
                 /\ log' = Append(log, ev)
                 /\ UNCHANGED <<store, url, params, session>>
            ELSE LET f == login_finish(cookies, cookie_path, store)
                 IN /\ store' = f.store
                    /\ IF f.raised # "none"
                       THEN /\ pc' = "failed"
                            /\ error' = Err(f.raised, <<>>)
                            /\ log' = (log \o <<ev>>) \o SaveEvent(f)
                            /\ UNCHANGED session
                       ELSE /\ pc' = "returned"
                            /\ session' = f.session
                            /\ log' = ((log \o <<ev>>) \o SaveEvent(f))
                                      \o <<ReturnEvent(f.session)>>
                            /\ UNCHANGED error
                    /\ UNCHANGED <<url, params>>
    /\ UNCHANGED <<method, cookie_path, cookies, current_user, user, pwd, captcha>>

\* login_with_pwd, lines 179-184: the username prompt
AskUser ==
    /\ UNCHANGED <<tvars, cvars, fvars>>
    /\ pc = "ask_user"
    /\ Count(log, "submit") < MaxSubmits
    /\ Count(log, "ask_user") < MaxPrompts
    /\ \E input \in UserInputs :
         /\ user' = PromptedUser(input, current_user)
         /\ current_user' = IF input # "" THEN input ELSE current_user
         /\ log' = Append(log, Event("ask_user", NoUrl, [input |-> <<input>>], <<>>, NoResp))
    /\ pc' = "ask_pwd"
    /\ UNCHANGED <<method, cookie_path, store, cookies, url, params, pwd,
                   captcha, session, error>>

\* login_with_pwd, line 186: the password prompt
AskPwd ==
    /\ UNCHANGED <<tvars, cvars, fvars>>
    /\ pc = "ask_pwd"
    /\ \E input \in PwdInputs :
         /\ pwd' = input
         /\ log' = Append(log, Event("ask_pwd", NoUrl, [input |-> <<input>>], <<>>, NoResp))
    /\ pc' = "get_captcha"
    /\ UNCHANGED <<method, cookie_path, store, cookies, url, params,
                   current_user, user, captcha, session, error>>

\* get_captcha_image (called at line 189): the image is fetched with the
\* uuid of the parameters
GetCaptcha ==
    /\ UNCHANGED <<tvars, cvars, fvars>>
    /\ pc = "get_captcha"
    /\ Count(log, "submit") < MaxSubmits
    /\ \E resp \in CaptchaResponses :
         LET raised == IF resp.net # "ok" THEN "ConnectionError"
                       ELSE IF RaiseForStatus(resp.status) THEN "HTTPError"
                       ELSE IF ~resp.image THEN "UnidentifiedImageError"
                       ELSE "none"
             ev == Event("captcha", CaptchaUrl,
                         [uuid |-> IF "uuid" \in DOMAIN params THEN params["uuid"] ELSE <<>>],
                         <<>>, resp)
         IN /\ log' = Append(log, ev)
            /\ IF raised = "none"
               THEN pc' = "ask_captcha" /\ UNCHANGED error
               ELSE pc' = "failed" /\ error' = Err(raised, <<>>)
    /\ UNCHANGED <<method, cookie_path, store, cookies, url, params,
                   current_user, user, pwd, captcha, session>>

\* login_with_pwd, line 191: the captcha prompt
AskCaptcha ==
    /\ UNCHANGED <<tvars, cvars, fvars>>
    /\ pc = "ask_captcha"
    /\ \E input \in CaptchaInputs :
         /\ captcha' = input
         /\ log' = Append(log, Event("ask_captcha", NoUrl, [input |-> <<input>>], <<>>, NoResp))
    /\ pc' = "submit"
    /\ UNCHANGED <<method, cookie_path, store, cookies, url, params,
                   current_user, user, pwd, session, error>>

\* send_login_request and parse_login_state up to its request, lines 192-199
Submit ==
    /\ UNCHANGED <<tvars, cvars, fvars>>
    /\ pc = "submit"
    /\ Count(log, "submit") < MaxSubmits
    /\ \E resp \in SubmitResponses :
         LET raised == IF resp.net # "ok" THEN "Timeout"
                       ELSE IF RaiseForStatus(resp.status) THEN "HTTPError"
                       ELSE "none"
             state == parse_login_state(resp.data)
             ev == Event("submit", UloginUrl, Payload(user, pwd, captcha, params),
                         <<>>, resp)
         IN /\ log' = Append(log, ev)
            /\ IF raised # "none"
               THEN /\ pc' = "failed"
                    /\ error' = Err(raised, <<>>)
                    /\ UNCHANGED cookies
               ELSE /\ cookies' = PyJar(resp.set_cookies)
                    /\ pc' = AfterState(state)
                    /\ IF pc' = "failed"
                       THEN error' = Err("Exception", <<resp.data>>)
                       ELSE UNCHANGED error
    /\ UNCHANGED <<method, cookie_path, store, url, params, current_user,
                   user, pwd, captcha, session>>

\* parse_login_state, lines 146-148, then login_with_pwd returns the cookies
\* and login, lines 74-82, saves them and returns the session
Finalize ==
    /\ UNCHANGED <<tvars, cvars, fvars>>
    /\ pc = "finalize"
    /\ \E resp \in FinalizeResponses :
         LET raised == IF resp.net # "ok" THEN "Timeout"
                       ELSE IF RaiseForStatus(resp.status) THEN "HTTPError"
                       ELSE "none"
             ev == Event("finalize", FinalizeUrl(ClientUrl, url), NoForm, <<>>, resp)
             ck == PyJar(ReturnedCookies(cookies.items, resp.set_cookies))
             f == login_finish(ck, cookie_path, store)
         IN IF raised # "none"
            THEN /\ pc' = "failed"
                 /\ error' = Err(raised, <<>>)
                 /\ log' = Append(log, ev)
                 /\ UNCHANGED <<store, cookies, session>>
            ELSE /\ cookies' = ck
                 /\ store' = f.store
                 /\ IF f.raised # "none"
                    THEN /\ pc' = "failed"
                         /\ error' = Err(f.raised, <<>>)
                         /\ log' = (log \o <<ev>>) \o SaveEvent(f)
                         /\ UNCHANGED session
                    ELSE /\ pc' = "returned"
                         /\ session' = f.session
                         /\ log' = ((log \o <<ev>>) \o SaveEvent(f))
                                   \o <<ReturnEvent(f.session)>>
                         /\ UNCHANGED error
    /\ UNCHANGED <<method, cookie_path, url, params, current_user, user, pwd,
                   captcha>>

NextLogin ==
    \/ LoadCookies
    \/ Probe
    \/ AskUser
    \/ AskPwd
    \/ GetCaptcha
    \/ AskCaptcha
    \/ Submit
    \/ Finalize

SpecLogin == InitLogin /\ [][NextLogin]_vars

\* the request that follows errno 0 has a timeout of ten seconds, and nothing
\* waits for the operator after it: login goes on to its end
SpecLoginFair == SpecLogin /\ WF_vars(Finalize)


-----------------------------------------------------------------------------
(* Token exchange: scripts/canvas.py, CanvasHelper.                        *)
(* A url is the sequence of the strings it is concatenated from; a         *)
(* Location header is given as the pieces url.split('?') returns.          *)

SubjectIds == <<"101", "102", "103", "104">>

FavoritesUrl == <<"https://oc.sjtu.edu.cn/api/v1/users/self/favorites/courses">>
LtiUrl(subject_id) ==
    <<"https://oc.sjtu.edu.cn/courses/", subject_id, "/external_tools/8329">>
TokenEndpoint ==
    "https://v.sjtu.edu.cn/jy-application-canvas-sjtu/lti3/getAccessTokenByTokenId"
TokenUrl(query) == <<TokenEndpoint, "?", query>>

TEvent(hop, http_method, u, data, follow, subject_id, resp) ==
    [hop |-> hop, method |-> http_method, url |-> u, data |-> data,
     allow_redirects |-> follow, subject |-> subject_id, resp |-> resp]

\* a subject as get_subject_list builds it: no token keys yet
NewSubject(id) ==
    [id |-> id, has_access_token |-> FALSE, access_token |-> <<>>,
     has_canvas_subject_id |-> FALSE, canvas_subject_id |-> <<>>]

\* a variant that stores the token and leaves out the canvas subject id
WithToken_TokenOnly(subj, token, cour_id) ==
    [subj EXCEPT !.has_access_token = TRUE, !.access_token = token]

\* subject['access_token'] = ...; subject['canvas_subject_id'] = ...
WithToken(subj, token, cour_id) ==
    [subj EXCEPT !.has_access_token = TRUE, !.access_token = token,
                 !.has_canvas_subject_id = TRUE, !.canvas_subject_id = cour_id]

Form(present, has_id, id, action, inputs) ==
    [present |-> present, has_id |-> has_id, id |-> id, action |-> action,
     inputs |-> inputs]
Input(name, value) == [name |-> name, has_value |-> TRUE, value |-> value]
InputNoValue(name) == [name |-> name, has_value |-> FALSE, value |-> ""]

\* {input_tag['name']: input_tag['value'] for input_tag in inputs}
FormPayload(inputs) ==
    [n \in {inputs[i].name : i \in DOMAIN inputs} |->
        inputs[CHOOSE i \in DOMAIN inputs :
                 /\ inputs[i].name = n
                 /\ \A j \in DOMAIN inputs : inputs[j].name = n => j <= i].value]

\* a variant that looks for a login form under another id
LoginFormId_Other == "signin_form"

\* the id that marks the login form
LoginFormId == "login_form"

\* _redirect_request after the request: raises, or the action and the payload
\* of the form of the page
redirect_request(resp) ==
    LET none == [raised |-> "none", url |-> <<>>, payload |-> NoForm]
    IN IF resp.net # "ok" THEN [none EXCEPT !.raised = "ConnectionError"]
       ELSE IF RaiseForStatus(resp.status) THEN [none EXCEPT !.raised = "HTTPError"]
       ELSE IF ~resp.form.present THEN [none EXCEPT !.raised = "TypeError"]
       ELSE IF ~resp.form.has_id THEN [none EXCEPT !.raised = "KeyError"]
       ELSE IF resp.form.id = LoginFormId THEN [none EXCEPT !.raised = "RuntimeError"]
       ELSE IF \E i \in DOMAIN resp.form.inputs : ~resp.form.inputs[i].has_value
       THEN [none EXCEPT !.raised = "KeyError"]
       ELSE [none EXCEPT !.url = resp.form.action,
                         !.payload = FormPayload(resp.form.inputs)]

\* a variant that reads a missing Location as an empty query
location_query_MissingIsEmpty(resp) ==
    IF resp.net # "ok" THEN [raised |-> "ConnectionError", query |-> ""]
    ELSE IF RaiseForStatus(resp.status) THEN [raised |-> "HTTPError", query |-> ""]
    ELSE IF ~resp.location.present THEN [raised |-> "none", query |-> ""]
    ELSE IF Len(resp.location.parts) < 2 THEN [raised |-> "IndexError", query |-> ""]
    ELSE [raised |-> "none", query |-> resp.location.parts[2]]

\* get_access_token, lines 146-148: the query of the Location of the third hop
location_query(resp) ==
    IF resp.net # "ok" THEN [raised |-> "ConnectionError", query |-> ""]
    ELSE IF RaiseForStatus(resp.status) THEN [raised |-> "HTTPError", query |-> ""]
    ELSE IF ~resp.location.present THEN [raised |-> "AttributeError", query |-> ""]
    ELSE IF Len(resp.location.parts) < 2 THEN [raised |-> "IndexError", query |-> ""]
    ELSE [raised |-> "none", query |-> resp.location.parts[2]]

\* get_access_token, lines 153-160: the token and courId of the response
token_result(resp, skip_asserts) ==
    LET none == [raised |-> "none", message |-> "", access_token |-> <<>>,
                 canvas_subject_id |-> <<>>]
    IN IF resp.net # "ok" THEN [none EXCEPT !.raised = "ConnectionError"]
       ELSE IF RaiseForStatus(resp.status) THEN [none EXCEPT !.raised = "HTTPError"]
       ELSE IF ~skip_asserts /\ resp.code # 0
       THEN [none EXCEPT !.raised = "AssertionError", !.message = resp.message]
       ELSE IF ~resp.has_data THEN [none EXCEPT !.raised = "TypeError"]
       ELSE [none EXCEPT !.access_token = resp.token,
                         !.canvas_subject_id = resp.courId]

\* refresh, lines 168-172: the position after subject i of n got its token
AfterSubject(i, n) == IF i < n THEN "hop1" ELSE "done"

(* The responses of the servers. *)

SubjectListResponses ==
    { [net |-> "ok", status |-> 500, ids |-> <<>>] }
    \cup { [net |-> "ok", status |-> 200, ids |-> SubSeq(SubjectIds, 1, n)] :
             n \in 0..MaxSubjects }

ToolForm(tag, inputs) ==
    Form(TRUE, TRUE, "tool_form", <<"https://v.sjtu.edu.cn/", tag>>, inputs)

PageResp(net, status, form) == [net |-> net, status |-> status, form |-> form]
NoPageForm == Form(FALSE, FALSE, "", <<>>, <<>>)

Hop1Responses(subject_id) ==
    { PageResp("connerr", 0, NoPageForm),
      PageResp("ok", 404, NoPageForm),
      PageResp("ok", 200, NoPageForm),
      PageResp("ok", 200, Form(TRUE, TRUE, "login_form", <<"https://oc.sjtu.edu.cn/login">>,
                               <<Input("username", "")>>)),
      PageResp("ok", 200, ToolForm("oidc/login_initiations",
                                   <<Input("iss", "https://oc.sjtu.edu.cn"),
                                     Input("login_hint", subject_id)>>)) }

\* what a server reads from a posted form: the field, or nothing
Field(payload, name) == IF name \in DOMAIN payload THEN payload[name] ELSE ""

Hop2Responses(payload) ==
    { PageResp("ok", 500, NoPageForm),
      PageResp("ok", 200, Form(TRUE, FALSE, "", <<"https://v.sjtu.edu.cn/x">>, <<>>)),
      PageResp("ok", 200, Form(TRUE, TRUE, "login_form", <<"https://oc.sjtu.edu.cn/login">>,
                               <<Input("username", "")>>)),
      PageResp("ok", 200, ToolForm("lti3/lti3Auth",
                                   <<Input("state", "st1"), InputNoValue("go")>>)),
      PageResp("ok", 200, ToolForm("lti3/lti3Auth",
                                   <<Input("state", "st1"),
                                     Input("id_token", Field(payload, "login_hint"))>>)) }

Location(present, parts) == [present |-> present, parts |-> parts]
Hop3Resp(net, status, location) == [net |-> net, status |-> status, location |-> location]

Hop3Responses(payload) ==
    { Hop3Resp("ok", 500, Location(FALSE, <<>>)),
      Hop3Resp("ok", 200, Location(FALSE, <<>>)),
      Hop3Resp("ok", 302, Location(TRUE, <<"https://v.sjtu.edu.cn/index.html">>)),
      Hop3Resp("ok", 302, Location(TRUE, <<"https://v.sjtu.edu.cn/index.html",
                                           Field(payload, "id_token")>>)),
      Hop3Resp("ok", 302, Location(TRUE, <<"https://v.sjtu.edu.cn/index.html",
                                           Field(payload, "id_token"), "from=/a">>)) }

TokenResp(net, status, code, message, has_data, token, cour_id) ==
    [net |-> net, status |-> status, code |-> code, message |-> message,
     has_data |-> has_data, token |-> token, courId |-> cour_id]

Hop4Responses(query, round) ==
    { TokenResp("ok", 503, 0, "", FALSE, <<>>, <<>>),
      TokenResp("ok", 200, 0, "", FALSE, <<>>, <<>>),
      TokenResp("ok", 200, 1, "token expired", FALSE, <<>>, <<>>),
      TokenResp("ok", 200, 1, "token expired", TRUE, <<"stale", query>>, <<"cour", query>>),
      TokenResp("ok", 200, 0, "", TRUE, <<"token", query, round>>, <<"cour", query>>) }

InitLogin0 ==
    /\ pc = "start"
    /\ method = "pwd"
    /\ cookie_path = FALSE
    /\ store = [state |-> "absent", jar |-> <<>>]
    /\ cookies = PyNone
    /\ url = NoUrl
    /\ params = NoForm
    /\ current_user = ""
    /\ user = ""
    /\ pwd = ""
    /\ captcha = ""
    /\ session = NoSession
    /\ error = NoError
    /\ log = <<>>

\* CanvasHelper.__init__ after login: refresh(True) is about to run
InitToken ==
    /\ InitLogin0
    /\ tpc = "list"
    /\ subjects = <<>>
    /\ idx = 0
    /\ hop_url = <<>>
    /\ hop_payload = NoForm
    /\ terror = NoError
    /\ tlog = <<>>
    /\ phase = "init"
    /\ optimize \in BOOLEAN
    /\ InitCourse0
    /\ InitFun0

TFail(kind, payload) ==
    /\ tpc' = "failed"
    /\ terror' = Err(kind, payload)

\* refresh, lines 164-165 (with get_subject_list), then the loop is entered
GetSubjectList ==
    /\ UNCHANGED <<lvars, cvars, fvars>>
    /\ tpc = "list"
    /\ \E resp \in SubjectListResponses :
         /\ tlog' = Append(tlog, TEvent("list", "GET", FavoritesUrl, NoForm, TRUE, "", resp))
         /\ IF resp.net # "ok" \/ RaiseForStatus(resp.status)
            THEN /\ TFail(IF resp.net # "ok" THEN "ConnectionError" ELSE "HTTPError", <<>>)
                 /\ UNCHANGED <<subjects, idx>>
            ELSE /\ subjects' = [i \in DOMAIN resp.ids |-> NewSubject(resp.ids[i])]
                 /\ idx' = 1
                 /\ tpc' = AfterSubject(0, Len(resp.ids))
                 /\ UNCHANGED terror
    /\ UNCHANGED <<hop_url, hop_payload, phase, optimize>>

\* a later call of refresh(update_subjects) on the constructed helper
RefreshAgain ==
    /\ UNCHANGED <<lvars, cvars, fvars>>
    /\ tpc = "done"
    /\ phase = "init"
    /\ phase' = "again"
    /\ \E update_subjects \in BOOLEAN :
         IF update_subjects
         THEN tpc' = "list" /\ UNCHANGED idx
         ELSE tpc' = AfterSubject(0, Len(subjects)) /\ idx' = 1
    /\ UNCHANGED <<subjects, hop_url, hop_payload, terror, tlog, optimize>>

\* get_access_token, lines 138-139: the first hop, a GET of the LTI launch
Hop1 ==
    /\ UNCHANGED <<lvars, cvars, fvars>>
    /\ tpc = "hop1"
    /\ LET sid == subjects[idx].id
           target == LtiUrl(sid)
       IN \E resp \in Hop1Responses(sid) :
            LET r == redirect_request(resp)
            IN /\ tlog' = Append(tlog, TEvent("hop1", "GET", target, NoForm, TRUE, sid, resp))
               /\ IF r.raised # "none"
                  THEN TFail(r.raised, <<>>) /\ UNCHANGED <<hop_url, hop_payload>>
                  ELSE /\ tpc' = "hop2"
                       /\ hop_url' = r.url
                       /\ hop_payload' = r.payload
                       /\ UNCHANGED terror
    /\ UNCHANGED <<subjects, idx, phase, optimize>>

\* get_access_token, line 142: the second hop, a POST of the first form
Hop2 ==
    /\ UNCHANGED <<lvars, cvars, fvars>>
    /\ tpc = "hop2"
    /\ LET sid == subjects[idx].id
       IN \E resp \in Hop2Responses(hop_payload) :
            LET r == redirect_request(resp)
            IN /\ tlog' = Append(tlog, TEvent("hop2", "POST", hop_url, hop_payload, TRUE, sid, resp))
               /\ IF r.raised # "none"
                  THEN TFail(r.raised, <<>>) /\ UNCHANGED <<hop_url, hop_payload>>
                  ELSE /\ tpc' = "hop3"
                       /\ hop_url' = r.url
                       /\ hop_payload' = r.payload
                       /\ UNCHANGED terror
    /\ UNCHANGED <<subjects, idx, phase, optimize>>

\* get_access_token, lines 145-151: the third hop, a POST that does not follow
\* the redirect, and the url of the token resolution
Hop3 ==
    /\ UNCHANGED <<lvars, cvars, fvars>>
    /\ tpc = "hop3"
    /\ LET sid == subjects[idx].id
       IN \E resp \in Hop3Responses(hop_payload) :
            LET r == location_query(resp)
            IN /\ tlog' = Append(tlog, TEvent("hop3", "POST", hop_url, hop_payload, FALSE, sid, resp))
               /\ IF r.raised # "none"
                  THEN TFail(r.raised, <<>>) /\ UNCHANGED hop_url
                  ELSE /\ tpc' = "hop4"
                       /\ hop_url' = TokenUrl(r.query)
                       /\ UNCHANGED terror
    /\ UNCHANGED <<subjects, idx, hop_payload, phase, optimize>>

\* get_access_token, lines 152-160, and refresh, lines 170-172: the token
\* resolution and the two assignments to the subject
Hop4 ==
    /\ UNCHANGED <<lvars, cvars, fvars>>
    /\ tpc = "hop4"
    /\ LET sid == subjects[idx].id
       IN \E resp \in Hop4Responses(hop_url[3], phase) :
            LET r == token_result(resp, optimize)
            IN /\ tlog' = Append(tlog, TEvent("hop4", "GET", hop_url, NoForm, TRUE, sid, resp))
               /\ IF r.raised # "none"
                  THEN TFail(r.raised, <<r.message>>) /\ UNCHANGED <<subjects, idx>>
                  ELSE /\ subjects' = [subjects EXCEPT
                                         ![idx] = WithToken(@, r.access_token, r.canvas_subject_id)]
                       /\ idx' = idx + 1
                       /\ tpc' = AfterSubject(idx, Len(subjects))
                       /\ UNCHANGED terror
    /\ UNCHANGED <<hop_url, hop_payload, phase, optimize>>

NextToken ==
    \/ GetSubjectList
    \/ RefreshAgain
    \/ Hop1
    \/ Hop2
    \/ Hop3
    \/ Hop4

SpecToken == InitToken /\ [][NextToken]_vars

-----------------------------------------------------------------------------
(* Synchronisation of the courses: scripts/canvas.py, CourseHelper, and    *)
(* scripts/core.py, Manager.from_json and Manager.refresh.                 *)
(* A dict is the sequence of its items in insertion order.  A key of       *)
(* download_urls is an int, or a str after a snapshot was read back.       *)
(* Of a course the id, name and video_id are kept; dt_start and dt_end are *)
(* copied like the name and left out.                                      *)

IntKey(n) == [type |-> "int", n |-> n]
StrKey(n) == [type |-> "str", n |-> n]
Item(k, v) == [k |-> k, v |-> v]

\* a variant that puts a new key in front
DictSet_Prepend(d, k, v) ==
    IF \E i \in DOMAIN d : d[i].k = k
    THEN [i \in DOMAIN d |-> IF d[i].k = k THEN Item(k, v) ELSE d[i]]
    ELSE <<Item(k, v)>> \o d

\* d[k] = v
DictSet(d, k, v) ==
    IF \E i \in DOMAIN d : d[i].k = k
    THEN [i \in DOMAIN d |-> IF d[i].k = k THEN Item(k, v) ELSE d[i]]
    ELSE Append(d, Item(k, v))

DictHas(d, k) == \E i \in DOMAIN d : d[i].k = k
DictGet(d, k) == d[CHOOSE i \in DOMAIN d : d[i].k = k].v

\* list(d.values())
DictValues(d) == [i \in DOMAIN d |-> d[i].v]

\* a variant that starts the merge from nothing
ById_Empty(cs) == <<>>

\* {c['id']: c for c in courses}
RECURSIVE ById(_)
ById(cs) ==
    IF cs = <<>> THEN <<>>
    ELSE LET front == SubSeq(cs, 1, Len(cs) - 1)
             last == cs[Len(cs)]
         IN DictSet(ById(front), last.id, last)

\* a url is the sequence of its pieces between '?', each the sequence of its
\* pieces between '.'
MediaUrl(video_id, stream) == <<<<"https://live.sjtu.edu.cn/vod", video_id, stream, "mp4">>,
                                <<"auth_key=1", "b">>>>
OldUrl(video_id) == <<<<"https://live.sjtu.edu.cn/old", video_id, "flv">>>>

Descriptor(view_num, u) == [cdviViewNum |-> view_num, rtmpUrlHdv |-> u]

\* a variant that takes the view count itself for the channel
Channel_ViewCount(view_num) == view_num

\* get_video_url, line 296: int(int(video.get('cdviViewNum')) != 0)
Channel(view_num) == IF view_num # 0 THEN 1 ELSE 0

\* get_video_url, lines 294-298: the loop over the descriptors
RECURSIVE VideoUrls(_)
VideoUrls(descriptors) ==
    IF descriptors = <<>> THEN <<>>
    ELSE LET front == SubSeq(descriptors, 1, Len(descriptors) - 1)
             video == descriptors[Len(descriptors)]
         IN DictSet(VideoUrls(front), IntKey(Channel(video.cdviViewNum)), video.rtmpUrlHdv)

\* get_video_url after the request
get_video_url(resp) ==
    IF resp.net # "ok" THEN [raised |-> "ConnectionError", videos |-> <<>>]
    ELSE IF RaiseForStatus(resp.status) THEN [raised |-> "HTTPError", videos |-> <<>>]
    ELSE IF ~resp.has_data THEN [raised |-> "AttributeError", videos |-> <<>>]
    ELSE [raised |-> "none", videos |-> VideoUrls(resp.list)]

Course(id, name, video_id, has_urls, urls) ==
    [id |-> id, name |-> name, video_id |-> video_id,
     has_download_urls |-> has_urls, download_urls |-> urls]

\* get_course_info, lines 256-263: the course of one record
CourseOfRecord(rec) == Course(rec.courId, rec.videoName, rec.videoId, FALSE, <<>>)

\* a variant that takes code -1 for an error
ListingRaises_OnMinusOne(resp) ==
    resp.net # "ok" \/ RaiseForStatus(resp.status) \/ resp.code = -1

ListingRaises(resp) == resp.net # "ok" \/ RaiseForStatus(resp.status)

\* get_course_info after the request
get_course_info(resp) ==
    IF resp.net # "ok" THEN [raised |-> "ConnectionError", courses |-> <<>>]
    ELSE IF ListingRaises(resp) THEN [raised |-> "HTTPError", courses |-> <<>>]
    ELSE IF resp.code = -1 \/ ~resp.has_data THEN [raised |-> "none", courses |-> <<>>]
    ELSE [raised |-> "none",
          courses |-> [i \in DOMAIN resp.records |-> CourseOfRecord(resp.records[i])]]

\* course['download_urls'] = download_urls
WithUrls(course, urls) ==
    [course EXCEPT !.has_download_urls = TRUE, !.download_urls = urls]

\* a variant of the test of update that resolves every listed course
Cached_Never(cur, cid) == FALSE

\* a variant of the test of update that asks for the id only
Cached_IdOnly(cur, cid) == DictHas(cur, cid)

\* update, line 235: cid in current and current[cid].get('download_urls', None)
Cached(cur, cid) ==
    /\ DictHas(cur, cid)
    /\ DictGet(cur, cid).has_download_urls
    /\ DictGet(cur, cid).download_urls # <<>>

(* The inputs. *)

CourseIds == 1..MaxCourses

RECURSIVE Ascending(_)
\* the ascending lists of ids up to n
Ascending(n) ==
    IF n = 0 THEN {<<>>}
    ELSE Ascending(n - 1) \cup {Append(l, n) : l \in Ascending(n - 1)}

Descending == [i \in CourseIds |-> MaxCourses + 1 - i]

ListedIds == Ascending(MaxCourses) \cup {Descending}

Record(id) == [courId |-> id, videoName |-> "lecture", videoId |-> <<"vid", id>>]

ListingResp(net, status, code, has_data, records) ==
    [net |-> net, status |-> status, code |-> code, has_data |-> has_data,
     records |-> records]

ListingResponses ==
    { ListingResp("connerr", 0, 0, FALSE, <<>>),
      ListingResp("ok", 500, 0, FALSE, <<>>),
      ListingResp("ok", 200, -1, TRUE, <<Record(1)>>),
      ListingResp("ok", 200, 0, FALSE, <<>>) }
    \cup { ListingResp("ok", 200, 0, TRUE, [i \in DOMAIN ids |-> Record(ids[i])]) :
             ids \in ListedIds }

MediaResp(net, status, has_data, list) ==
    [net |-> net, status |-> status, has_data |-> has_data, list |-> list]

MediaResponses(video_id) ==
    { MediaResp("ok", 502, FALSE, <<>>),
      MediaResp("ok", 200, TRUE, <<>>),
      MediaResp("ok", 200, TRUE, <<Descriptor(0, MediaUrl(video_id, "cam")),
                                   Descriptor(5, MediaUrl(video_id, "screen"))>>) }

\* what a previous list holds for a course: no download_urls, an empty one,
\* or a resolved one
PreviousCourses(id, key) ==
    { Course(id, "recorded", <<"vid", id>>, FALSE, <<>>),
      Course(id, "recorded", <<"vid", id>>, TRUE, <<>>),
      Course(id, "recorded", <<"vid", id>>, TRUE, <<Item(key, OldUrl(id))>>) }

RECURSIVE PreviousLists(_)
\* the previous lists over the ids up to n, in ascending order
PreviousLists(n) ==
    IF n = 0 THEN {<<>>}
    ELSE PreviousLists(n - 1)
         \cup {Append(l, c) : l \in PreviousLists(n - 1), c \in PreviousCourses(n, IntKey(0))}

SnapshotSubject(id, cs) ==
    [id |-> id, access_token |-> <<"token", id>>, canvas_subject_id |-> <<"cour", id>>,
     has_courses |-> TRUE, courses |-> cs, total |-> Len(cs)]

\* the course lists of the subjects of a snapshot
SnapshotCourses ==
    { <<Course(1, "recorded", <<"vid", 1>>, TRUE, <<Item(StrKey(0), OldUrl(1))>>)>>,
      <<Course(1, "recorded", <<"vid", 1>>, TRUE, <<Item(StrKey(0), OldUrl(1))>>),
        Course(2, "recorded", <<"vid", 2>>, TRUE, <<>>)>> }

Snapshots ==
    { <<SnapshotSubject("101", cs)>> : cs \in SnapshotCourses }
    \cup { <<SnapshotSubject("101", cs), SnapshotSubject("102", ds)>> :
             cs \in SnapshotCourses, ds \in SnapshotCourses }

CEvent(ev, subject_id, arg, resp) ==
    [ev |-> ev, subject |-> subject_id, arg |-> arg, resp |-> resp]

\* the subject the helper at work belongs to ("" for a helper used directly)
HelperSubject == IF mgr.si = 0 THEN "" ELSE mgr.subjects[mgr.si].id

\* what the helper holds when it is called
Previous == [has_courses |-> has_courses, courses |-> courses]

\* a CourseHelper with or without a previous list (from_dict), about to be
\* called
InitHelper ==
    /\ cpc = "call"
    /\ has_courses \in BOOLEAN
    /\ courses \in (IF has_courses THEN PreviousLists(MaxCourses) ELSE {<<>>})
    /\ updated = <<>>
    /\ current_map = <<>>
    /\ ci = 0
    /\ cerror = NoError
    /\ clog = <<>>
    /\ mgr = NoManager

\* Manager.from_json has read a snapshot; Manager.refresh is about to run
InitManager ==
    /\ cpc = "mgr"
    /\ has_courses = FALSE
    /\ courses = <<>>
    /\ updated = <<>>
    /\ current_map = <<>>
    /\ ci = 0
    /\ cerror = NoError
    /\ clog = <<>>
    /\ mgr \in { [subjects |-> snap, si |-> 1] : snap \in Snapshots }

InitSync ==
    /\ InitLogin0
    /\ InitToken0
    /\ InitFun0
    /\ (InitHelper \/ InitManager)

CFail(kind) ==
    /\ cpc' = "failed"
    /\ cerror' = Err(kind, <<>>)

\* Manager.refresh, lines 51-57: a new CourseHelper for the subject, then
\* helper.update()
MgrRefreshSubject ==
    /\ UNCHANGED <<lvars, tvars, fvars>>
    /\ cpc = "mgr"
    /\ mgr.si <= Len(mgr.subjects)
    /\ has_courses' = FALSE
    /\ courses' = <<>>
    /\ cpc' = "call_update"
    /\ UNCHANGED <<updated, current_map, ci, cerror, clog, mgr>>

\* Manager.refresh, lines 58-59: the courses of the helper are stored on the
\* subject
MgrStore ==
    /\ UNCHANGED <<lvars, tvars, fvars>>
    /\ cpc = "done"
    /\ mgr.si > 0
    /\ mgr' = [subjects |-> [mgr.subjects EXCEPT ![mgr.si] =
                               [@ EXCEPT !.has_courses = TRUE, !.courses = courses,
                                         !.total = Len(courses)]],
               si |-> mgr.si + 1]
    /\ cpc' = IF mgr.si < Len(mgr.subjects) THEN "mgr" ELSE "mgr_done"
    /\ UNCHANGED <<has_courses, courses, updated, current_map, ci, cerror, clog>>

\* the property CourseHelper.courses is read on a helper without _courses:
\* lines 197-198 set _courses to the listing, and no media is resolved
ReadCourses ==
    /\ UNCHANGED <<lvars, tvars, fvars>>
    /\ cpc = "call"
    /\ mgr.si = 0
    /\ ~has_courses
    /\ \E resp \in ListingResponses :
         LET r == get_course_info(resp)
         IN /\ clog' = clog \o <<CEvent("read", HelperSubject, "courses", Previous),
                                  CEvent("listing", HelperSubject, <<>>, resp)>>
            /\ IF r.raised # "none"
               THEN CFail(r.raised) /\ UNCHANGED <<has_courses, courses>>
               ELSE /\ has_courses' = TRUE
                    /\ courses' = r.courses
                    /\ UNCHANGED <<cpc, cerror>>
    /\ UNCHANGED <<updated, current_map, ci, mgr>>

\* CourseHelper.refresh is called
CallRefresh ==
    /\ UNCHANGED <<lvars, tvars, fvars>>
    /\ cpc = "call"
    /\ clog' = Append(clog, CEvent("call", HelperSubject, "refresh", Previous))
    /\ cpc' = "refresh_list"
    /\ UNCHANGED <<has_courses, courses, updated, current_map, ci, cerror, mgr>>

\* CourseHelper.update is called: lines 228-230 send it to refresh when the
\* helper has no _courses
CallUpdate ==
    /\ UNCHANGED <<lvars, tvars, fvars>>
    /\ cpc \in {"call", "call_update"}
    /\ clog' = Append(clog, CEvent("call", HelperSubject, "update", Previous))
    /\ cpc' = IF has_courses THEN "update_list" ELSE "refresh_list"
    /\ UNCHANGED <<has_courses, courses, updated, current_map, ci, cerror, mgr>>

\* refresh, line 221
RefreshList ==
    /\ UNCHANGED <<lvars, tvars, fvars>>
    /\ cpc = "refresh_list"
    /\ \E resp \in ListingResponses :
         LET r == get_course_info(resp)
         IN /\ clog' = Append(clog, CEvent("listing", HelperSubject, <<>>, resp))
            /\ IF r.raised # "none"
               THEN CFail(r.raised) /\ UNCHANGED <<has_courses, courses, ci>>
               ELSE /\ has_courses' = TRUE
                    /\ courses' = r.courses
                    /\ ci' = 1
                    /\ cpc' = IF r.courses = <<>> THEN "done" ELSE "refresh_loop"
                    /\ UNCHANGED cerror
    /\ UNCHANGED <<updated, current_map, mgr>>

\* refresh, lines 222-224: one turn of the loop
RefreshMedia ==
    /\ UNCHANGED <<lvars, tvars, fvars>>
    /\ cpc = "refresh_loop"
    /\ LET course == courses[ci]
       IN \E resp \in MediaResponses(course.video_id) :
            LET r == get_video_url(resp)
            IN /\ clog' = Append(clog, CEvent("media", HelperSubject, course.video_id, resp))
               /\ IF r.raised # "none"
                  THEN CFail(r.raised) /\ UNCHANGED <<courses, ci>>
                  ELSE /\ courses' = [courses EXCEPT ![ci] = WithUrls(@, r.videos)]
                       /\ ci' = ci + 1
                       /\ cpc' = IF ci < Len(courses) THEN "refresh_loop" ELSE "done"
                       /\ UNCHANGED cerror
    /\ UNCHANGED <<has_courses, updated, current_map, mgr>>

\* update, lines 232-233, and line 241 when the listing is empty
UpdateList ==
    /\ UNCHANGED <<lvars, tvars, fvars>>
    /\ cpc = "update_list"
    /\ \E resp \in ListingResponses :
         LET r == get_course_info(resp)
         IN /\ clog' = Append(clog, CEvent("listing", HelperSubject, <<>>, resp))
            /\ IF r.raised # "none"
               THEN CFail(r.raised) /\ UNCHANGED <<updated, current_map, ci, courses>>
               ELSE /\ updated' = r.courses
                    /\ current_map' = ById(courses)
                    /\ ci' = 1
                    /\ IF r.courses = <<>>
                       THEN cpc' = "done" /\ courses' = DictValues(ById(courses))
                       ELSE cpc' = "update_loop" /\ UNCHANGED courses
                    /\ UNCHANGED cerror
    /\ UNCHANGED <<has_courses, mgr>>

\* update, lines 234-240: one turn of the loop, and line 241 after the last
UpdateStep ==
    /\ UNCHANGED <<lvars, tvars, fvars>>
    /\ cpc = "update_loop"
    /\ LET course == updated[ci]
           cid == course.id
           last == ci = Len(updated)
       IN IF Cached(current_map, cid)
          THEN /\ ci' = ci + 1
               /\ IF last
                  THEN cpc' = "done" /\ courses' = DictValues(current_map)
                  ELSE UNCHANGED <<cpc, courses>>
               /\ UNCHANGED <<updated, current_map, cerror, clog>>
          ELSE \E resp \in MediaResponses(course.video_id) :
                 LET r == get_video_url(resp)
                     merged == DictSet(current_map, cid, WithUrls(course, r.videos))
                 IN /\ clog' = Append(clog, CEvent("media", HelperSubject, course.video_id, resp))
                    /\ IF r.raised # "none"
                       THEN CFail(r.raised) /\ UNCHANGED <<updated, current_map, ci, courses>>
                       ELSE /\ updated' = [updated EXCEPT ![ci] = WithUrls(course, r.videos)]
                            /\ current_map' = merged
                            /\ ci' = ci + 1
                            /\ IF last
                               THEN cpc' = "done" /\ courses' = DictValues(merged)
                               ELSE UNCHANGED <<cpc, courses>>
                            /\ UNCHANGED cerror
    /\ UNCHANGED <<has_courses, mgr>>

NextSync ==
    \/ MgrRefreshSubject
    \/ MgrStore
    \/ ReadCourses
    \/ CallRefresh
    \/ CallUpdate
    \/ RefreshList
    \/ RefreshMedia
    \/ UpdateList
    \/ UpdateStep

SpecSync == InitSync /\ [][NextSync]_vars

-----------------------------------------------------------------------------
(* get_video_url as a function of the descriptors of the answer.           *)

ViewCounts == {0, 5, 12}
StreamUrls == {"A", "B"}

RECURSIVE SeqsUpTo(_, _)
\* the sequences over S of length at most n
SeqsUpTo(S, n) ==
    IF n = 0 THEN {<<>>}
    ELSE SeqsUpTo(S, n - 1)
         \cup {Append(q, x) : q \in {r \in SeqsUpTo(S, n - 1) : Len(r) = n - 1}, x \in S}

DescriptorLists ==
    SeqsUpTo({Descriptor(n, u) : n \in ViewCounts, u \in StreamUrls}, MaxDescriptors)

InitVideo ==
    /\ InitLogin0
    /\ InitToken0
    /\ InitCourse0
    /\ fpc = "video"
    /\ fin \in DescriptorLists
    /\ fout = <<>>

\* get_video_url, lines 294-298, on the descriptors of the answer
ApplyVideoUrls ==
    /\ UNCHANGED <<lvars, tvars, cvars>>
    /\ fpc = "video"
    /\ fout' = VideoUrls(fin)
    /\ fpc' = "video_done"
    /\ UNCHANGED fin

NextVideo == ApplyVideoUrls

SpecVideo == InitVideo /\ [][NextVideo]_vars

-----------------------------------------------------------------------------
(* Manager._generate_aria2_txt as a function of the selection, the         *)
(* subjects as Manager.download hands them over, and with_screen_record.   *)
(* The result is download_queue; line 117-120 render each of its pairs as  *)
(* one record of the text.                                                 *)

\* a variant that skips the key only when it is the int 1
SkipChannel_IntOnly(with_screen_record, k) ==
    ~with_screen_record /\ k = IntKey(1)

\* _generate_aria2_txt, line 110: (not with_screen_record) and int(k) == 1
SkipChannel(with_screen_record, k) ==
    ~with_screen_record /\ k.n = 1

\* line 113: v.split('?')[0].split('.')[-1]
Extension(v) == v[1][Len(v[1])]

\* a variant that leaves the name of the course out of the path
OutputPath_NoCourseName(subj_name, course_name, k, exf) ==
    <<subj_name, "/", "", "_", k.n, ".", exf>>

\* line 114: f"{subj_name}/{course_name}_{k}.{exf}"; an int key and a str key
\* are written alike
OutputPath(subj_name, course_name, k, exf) ==
    <<subj_name, "/", course_name, "_", k.n, ".", exf>>

Job(u, path) == [url |-> u, out |-> path]

RECURSIVE JobsOfUrls(_, _, _, _)
\* lines 109-115: the loop over the channels of one course
JobsOfUrls(urls, subj_name, course_name, with_screen_record) ==
    IF urls = <<>> THEN <<>>
    ELSE LET k == Head(urls).k
             v == Head(urls).v
             rest == JobsOfUrls(Tail(urls), subj_name, course_name, with_screen_record)
         IN IF SkipChannel(with_screen_record, k) THEN rest
            ELSE <<Job(v, OutputPath(subj_name, course_name, k, Extension(v)))>> \o rest

RECURSIVE JobsOfCourses(_, _, _)
\* lines 106-115: the loop over the selected courses of one subject
JobsOfCourses(course_id_list, subj, with_screen_record) ==
    IF course_id_list = <<>> THEN <<>>
    ELSE LET course == DictGet(subj.courses, Head(course_id_list))
             urls == IF course.has_download_urls THEN course.download_urls ELSE <<>>
         IN JobsOfUrls(urls, subj.name, course.name, with_screen_record)
            \o JobsOfCourses(Tail(course_id_list), subj, with_screen_record)

RECURSIVE generate_aria2_txt(_, _, _)
\* lines 102-115: download_queue
generate_aria2_txt(course_ids, subjs, with_screen_record) ==
    IF course_ids = <<>> THEN <<>>
    ELSE JobsOfCourses(Head(course_ids).v, DictGet(subjs, Head(course_ids).k),
                       with_screen_record)
         \o generate_aria2_txt(Tail(course_ids), subjs, with_screen_record)

\* the url of a stream of a course
StreamUrl(subject_id, course_id, stream, ext) ==
    <<<<"https://live.sjtu.edu.cn/vod", subject_id, course_id, stream, ext>>,
      <<"auth_key=1", "b">>>>

\* the download_urls a course may hold: none, from this run (int keys), or
\* read back from a snapshot (str keys)
DownloadUrls(subject_id, course_id) ==
    { <<>>,
      <<Item(IntKey(0), StreamUrl(subject_id, course_id, "cam", "mp4"))>>,
      <<Item(IntKey(1), StreamUrl(subject_id, course_id, "screen", "mp4"))>>,
      <<Item(IntKey(0), StreamUrl(subject_id, course_id, "cam", "mp4")),
        Item(IntKey(1), StreamUrl(subject_id, course_id, "screen", "flv"))>>,
      <<Item(StrKey(1), StreamUrl(subject_id, course_id, "screen", "mp4")),
        Item(StrKey(0), StreamUrl(subject_id, course_id, "cam", "mp4"))>> }

CourseNames == {"Lecture 1", "Lecture 2"}

ManifestCourses(subject_id, course_id) ==
    { Course(course_id, name, <<"vid", course_id>>, urls # <<>>, urls) :
        name \in CourseNames, urls \in DownloadUrls(subject_id, course_id) }

ManifestSubject(name, cs) ==
    [name |-> name, courses |-> [i \in DOMAIN cs |-> Item(cs[i].id, cs[i])]]

ManifestSubjects ==
    { <<Item("101", ManifestSubject("Algebra", <<c1, c2>>)),
        Item("102", ManifestSubject("Algebra", <<c3>>))>> :
        c1 \in ManifestCourses("101", 1), c2 \in ManifestCourses("101", 2),
        c3 \in {Course(1, "Lecture 1", <<"vid", 1>>, TRUE,
                       <<Item(IntKey(0), StreamUrl("102", 1, "cam", "mp4")),
                         Item(IntKey(1), StreamUrl("102", 1, "screen", "mp4"))>>)} }

Selections ==
    { <<Item("101", l)>> : l \in {<<>>, <<1>>, <<2>>, <<1, 2>>, <<2, 1>>} }
    \cup { <<Item("102", <<1>>), Item("101", <<2, 1>>)>>,
           <<Item("101", <<1>>), Item("102", <<1>>)>> }

InitManifest ==
    /\ InitLogin0
    /\ InitToken0
    /\ InitCourse0
    /\ fpc = "manifest"
    /\ fin \in { [course_ids |-> sel, subjects |-> subjs, with_screen_record |-> w] :
                   sel \in Selections, subjs \in ManifestSubjects, w \in BOOLEAN }
    /\ fout = <<>>

\* Manager._generate_aria2_txt
GenerateAria2Txt ==
    /\ UNCHANGED <<lvars, tvars, cvars>>
    /\ fpc = "manifest"
    /\ fout' = generate_aria2_txt(fin.course_ids, fin.subjects, fin.with_screen_record)
    /\ fpc' = "manifest_done"
    /\ UNCHANGED fin

NextManifest == GenerateAria2Txt

SpecManifest == InitManifest /\ [][NextManifest]_vars

-----------------------------------------------------------------------------
(* scripts/utils.py: format_srt_timestamp.  A rendered number is the       *)
(* sequence of its decimal digits.                                         *)

RECURSIVE Digits(_)
\* the decimal digits of n >= 0
Digits(n) == IF n < 10 THEN <<n>> ELSE Append(Digits(n \div 10), n % 10)

RECURSIVE ZeroFill(_, _)
ZeroFill(d, width) == IF Len(d) >= width THEN d ELSE ZeroFill(<<0>> \o d, width)

\* f"{n:0w}"
Padded(n, width) == ZeroFill(Digits(n), width)

\* a variant that wraps the hours at a day
HoursOf_Clamped(ms) == (ms \div 3600000) % 24

\* format_srt_timestamp, line 6
HoursOf(ms) == ms \div 3600000

\* format_srt_timestamp, lines 6-12
format_srt_timestamp(ms) ==
    LET hours == HoursOf(ms)
        ms1 == ms % 3600000
        minutes == ms1 \div 60000
        ms2 == ms1 % 60000
        seconds == ms2 \div 1000
        milliseconds == ms2 % 1000
    IN <<Padded(hours, 2), ":", Padded(minutes, 2), ":", Padded(seconds, 2), ",",
         Padded(milliseconds, 3)>>

\* the millisecond counts the function is applied to
Milliseconds ==
    { h * 3600000 + m * 60000 + sec * 1000 + ms :
        h \in {0, 1, 23, 24, 100}, m \in {0, 2, 59}, sec \in {0, 3, 59}, ms \in {0, 45, 999} }

InitSrt ==
    /\ InitLogin0
    /\ InitToken0
    /\ InitCourse0
    /\ fpc = "srt"
    /\ fin \in Milliseconds
    /\ fout = <<>>

\* format_srt_timestamp
FormatSrtTimestamp ==
    /\ UNCHANGED <<lvars, tvars, cvars>>
    /\ fpc = "srt"
    /\ fout' = format_srt_timestamp(fin)
    /\ fpc' = "srt_done"
    /\ UNCHANGED fin

NextSrt == FormatSrtTimestamp

SpecSrt == InitSrt /\ [][NextSrt]_vars

-----------------------------------------------------------------------------
(* Properties of login.  The answers of the servers are read from the      *)
(* responses recorded in the log, as the specification names them.         *)

Idx(ev) == {i \in DOMAIN log : log[i].ev = ev}
IsSubmit(e) == e.ev = "submit"
SubmitSeq == SelectSeq(log, IsSubmit)
IsHttp(e) == e.ev \in {"probe", "captcha", "submit", "finalize"}
Terminal == pc \in {"returned", "failed"}

\* the request was answered and raise_for_status let the response through
Delivered(e) == e.resp.net = "ok" /\ ~(e.resp.status \in 400..599)
\* a network error as the specification describes it: non-2xx or a timeout
NonSuccess(e) == e.resp.net # "ok" \/ ~(e.resp.status \in 200..299)

AnsweredErrno0(e) ==
    Delivered(e) /\ e.resp.data.has_errno /\ e.resp.data.errno = 0
AnsweredWrongCaptcha(e) ==
    Delivered(e) /\ ~AnsweredErrno0(e) /\ e.resp.data.code = "WRONG_CAPTCHA"
AnsweredWrongCredentials(e) ==
    Delivered(e) /\ ~AnsweredErrno0(e) /\ e.resp.data.code = "WRONG_USER_OR_PASSWORD"
AnsweredUnknown(e) ==
    /\ Delivered(e)
    /\ ~AnsweredErrno0(e)
    /\ e.resp.data.code \notin {"WRONG_CAPTCHA", "WRONG_USER_OR_PASSWORD"}

\* the submits so far were answered WRONG_CAPTCHA n times and then errno 0
CaptchaRetryRun(n) ==
    /\ Len(SubmitSeq) = n + 1
    /\ AnsweredErrno0(SubmitSeq[n + 1])
    /\ \A i \in 1..n : AnsweredWrongCaptcha(SubmitSeq[i])

\* C1: n submits answered WRONG_CAPTCHA and the next answered errno 0 give
\* n+1 captcha fetches, n+1 submits, one username and one password prompt,
\* the same (typed) username and password in every submit, and one successful
\* return (once the request after errno 0 went through).
C1_CaptchaRetryLoop ==
    \A n \in 0..(Len(SubmitSeq) - 1) :
      CaptchaRetryRun(n) =>
        /\ Count(log, "captcha") = n + 1
        /\ Count(log, "submit") = n + 1
        /\ Count(log, "ask_user") = 1
        /\ Count(log, "ask_pwd") = 1
        /\ \A i \in 1..(n + 1) :
             /\ SubmitSeq[i].form["user"] = SubmitSeq[1].form["user"]
             /\ SubmitSeq[i].form["pass"] = SubmitSeq[1].form["pass"]
        /\ \A a \in Idx("ask_user") : SubmitSeq[1].form["user"] = log[a].form["input"]
        /\ \A a \in Idx("ask_pwd") : SubmitSeq[1].form["pass"] = log[a].form["input"]
        /\ pc \in {"finalize", "returned", "failed"}
        /\ Count(log, "return") = (IF pc = "returned" THEN 1 ELSE 0)
        /\ (pc = "returned" => session.id = "login")
        /\ \A f \in Idx("finalize") : Delivered(log[f]) => pc = "returned"

C1_Witness ==
    /\ CaptchaRetryRun(2)
    /\ pc = "returned"
    /\ Count(log, "captcha") = 3

\* C2: login issues one GET to the client url, with the loaded cookie; a
\* location outside the identity provider returns the session of the probe
\* with no prompt, captcha fetch or submit; a location at the identity
\* provider never returns the session of the probe and (method pwd, challenge
\* page parsed) leads to the credential prompt.
C2_CookieProbe ==
    pc \notin {"start", "probe"} =>
      /\ Cardinality({i \in DOMAIN log : IsHttp(log[i]) /\ log[i].url = ClientUrl}) = 1
      /\ Cardinality(Idx("probe")) = 1
      /\ \A i \in Idx("probe") :
           /\ log[i].url = ClientUrl
           /\ log[1].ev = "load" /\ log[i].cookies = log[1].cookies
           /\ (i > 1 => log[i - 1].ev = "load")
           /\ (log[i].resp.net = "ok" /\ log[i].resp.status = 200) =>
                IF log[i].resp.url.netloc # IdpHost
                THEN /\ pc = "returned"
                     /\ session = [id |-> "probe", cookies |-> log[i].resp.set_cookies]
                     /\ \A j \in DOMAIN log :
                          log[j].ev \notin {"ask_user", "ask_pwd", "ask_captcha",
                                            "captcha", "submit", "finalize", "save"}
                ELSE /\ session.id # "probe"
                     /\ (method = "pwd" /\ log[i].resp.anchor.present /\ i = Len(log))
                          => pc = "ask_user"
                     /\ (i < Len(log) => log[i + 1].ev # "return")

C2_WitnessResumed ==
    /\ pc = "returned"
    /\ session.id = "probe"
    /\ log[1].cookies # <<>>

\* C3: after a submit answered wrong-credentials the username, the password
\* and a fresh captcha are asked for, in this order, before the next submit;
\* that submit sends the password typed at this prompt and, when the operator
\* gives no username, the username of the refused submit.
C3_CredentialRetry ==
    \A i \in Idx("submit") :
      AnsweredWrongCredentials(log[i]) =>
        /\ (i = Len(log) => pc = "ask_user")
        /\ (i + 1 <= Len(log) => log[i + 1].ev = "ask_user")
        /\ (i + 2 <= Len(log) => log[i + 2].ev = "ask_pwd")
        /\ (i + 3 <= Len(log) => log[i + 3].ev = "captcha")
        /\ (i + 4 <= Len(log) => log[i + 4].ev = "ask_captcha")
        /\ (i + 5 <= Len(log) =>
              /\ log[i + 5].ev = "submit"
              /\ log[i + 5].form["pass"] = log[i + 2].form["input"]
              /\ log[i + 5].form["user"] =
                    (IF log[i + 1].form["input"] = <<"">>
                     THEN log[i].form["user"]
                     ELSE log[i + 1].form["input"]))
        /\ \A j \in Idx("submit") :
             j > i => \E a \in Idx("ask_pwd"), c \in Idx("captcha") :
                         i < a /\ a < c /\ c < j

C3_Witness ==
    \E i \in Idx("submit") :
      /\ AnsweredWrongCredentials(log[i])
      /\ i + 5 <= Len(log)
      /\ log[i].form["user"] = <<"bob">>
      /\ log[i + 1].form["input"] = <<"">>
      /\ log[i + 5].form["user"] = <<"bob">>
      /\ log[i + 5].form["pass"] # log[i].form["pass"]

\* C4: a submit answered with an errno other than 0 (or none) and a code that
\* is neither wrong-credentials nor wrong-captcha ends login with an error
\* that carries the payload: it is the last interaction, no session is
\* returned and no cookie is written.
C4_UnknownCodeIsTerminal ==
    \A i \in Idx("submit") :
      AnsweredUnknown(log[i]) =>
        /\ i = Len(log)
        /\ pc = "failed"
        /\ error = Err("Exception", <<log[i].resp.data>>)
        /\ session = NoSession
        /\ Count(log, "save") = 0
        /\ Count(log, "return") = 0
        /\ store.state = log[1].resp.state

C4_Witness ==
    /\ pc = "failed"
    /\ Len(SubmitSeq) = 2
    /\ AnsweredUnknown(SubmitSeq[2])
    /\ ~SubmitSeq[2].resp.data.has_errno


\* C5: a transport failure (a non-2xx status or a timeout) at any HTTP step
\* ends login in failure at once: the failed request is the last interaction
\* and no session is returned; and the cookie probe is issued exactly once
\* whatever the number of retries.
C5_TransportFailureFails ==
    /\ \A i \in DOMAIN log :
         (IsHttp(log[i]) /\ NonSuccess(log[i])) =>
           /\ i = Len(log)
           /\ pc = "failed"
           /\ session = NoSession
    /\ (pc \notin {"start", "probe"} => Count(log, "probe") = 1)

\* the part of C5 the code keeps: a timeout, a connection error or a 4xx/5xx
\* status (at the probe, any status other than 200) ends login at once
C5_RaisedFailureFails ==
    /\ \A i \in DOMAIN log :
         (IsHttp(log[i]) /\ (~Delivered(log[i])
                             \/ (log[i].ev = "probe" /\ log[i].resp.status # 200))) =>
           /\ i = Len(log)
           /\ pc = "failed"
           /\ session = NoSession
    /\ (pc \notin {"start", "probe"} => Count(log, "probe") = 1)

\* the cookies of jar a are among those of jar b
JarWithin(a, b) == \A i \in DOMAIN a : \E j \in DOMAIN b : a[i] = b[j]

\* C6 as stated: after errno 0 the client url (the one passed to login) is
\* requested again exactly once before login returns, and the session
\* returned holds the cookies of that request.
C6_FinalizeRequestsClientUrl ==
    (pc = "returned" /\ session.id = "login") =>
      /\ Count(log, "finalize") = 1
      /\ \A f \in Idx("finalize") :
           /\ log[f].url = ClientUrl
           /\ JarWithin(log[f].resp.set_cookies, session.cookies)

\* C6 as amended: after errno 0 the resolved location of the probe (the
\* challenge page at the identity provider) is requested exactly once, with
\* no cookie attached, before login returns; the session returned holds the
\* cookies set by the answer to the submit and none of that request.
C6_FinalizeRequestsResolvedUrl ==
    \A i \in Idx("submit") :
      AnsweredErrno0(log[i]) =>
        /\ (i = Len(log) => pc = "finalize")
        /\ (i < Len(log) =>
              /\ log[i + 1].ev = "finalize"
              /\ Count(log, "finalize") = 1
              /\ \A p \in Idx("probe") : log[i + 1].url = log[p].resp.url
              /\ log[i + 1].url.netloc = IdpHost
              /\ log[i + 1].cookies = <<>>)
        /\ (pc = "returned" =>
              /\ session = [id |-> "login", cookies |-> log[i].resp.set_cookies]
              /\ \A f \in Idx("finalize"), r \in Idx("return") : f < r)

C6_Witness ==
    /\ pc = "returned"
    /\ session.id = "login"
    /\ session.cookies # <<>>
    /\ \E f \in Idx("finalize") :
         /\ log[f].resp.set_cookies # <<>>
         /\ ~JarWithin(log[f].resp.set_cookies, session.cookies)

\* the cookie file holds nothing but the first JAAuthCookie of the jar
HoldsFirstJAAuthCookie(st, jar) ==
    /\ st.state = "ok"
    /\ Len(st.jar) <= 1
    /\ IF \E k \in DOMAIN jar : jar[k].name = JAAuthCookie
       THEN /\ Len(st.jar) = 1
            /\ \E k \in DOMAIN jar :
                 /\ jar[k] = st.jar[1]
                 /\ jar[k].name = JAAuthCookie
                 /\ \A j \in 1..(k - 1) : jar[j].name # JAAuthCookie
       ELSE st.jar = <<>>

\* C7 as stated: with a cookie path, the cookie file is read once, before the
\* first request; it is written once when login ends authenticated (only the
\* cookie named JAAuthCookie) and not at all when it ends in failure.
C7_StoreWrittenOnceIfAuthenticated ==
    (cookie_path /\ Terminal) =>
      /\ Count(log, "load") = 1
      /\ log[1].ev = "load"
      /\ (pc = "returned" =>
            /\ Count(log, "save") = 1
            /\ \A k \in DOMAIN store.jar : store.jar[k].name = JAAuthCookie
            /\ Len(store.jar) <= 1)
      /\ (pc = "failed" => Count(log, "save") = 0)

\* C7 as amended: with a cookie path, the cookie file is read once, before
\* the first request; it is written once when login ends authenticated by a
\* submit (it then holds only the first JAAuthCookie the submit's answer set,
\* whatever it held before), and not at all when login ends authenticated by
\* the cookie probe or in failure.
C7_StoreWrittenOnceAfterSubmit ==
    (cookie_path /\ pc # "start") =>
      /\ Count(log, "load") = 1
      /\ log[1].ev = "load"
      /\ \A i \in DOMAIN log : IsHttp(log[i]) => i > 1
      /\ (pc = "returned" /\ session.id = "login") =>
            /\ Count(log, "save") = 1
            /\ \A i \in Idx("submit") :
                 AnsweredErrno0(log[i]) =>
                   HoldsFirstJAAuthCookie(store, log[i].resp.set_cookies)
            /\ \A sv \in Idx("save"), r \in Idx("return") :
                 sv < r /\ log[sv].cookies = store.jar
      /\ (pc # "returned" \/ session.id # "login") =>
            /\ Count(log, "save") = 0
            /\ store \in StoreInputs
            /\ store.state = log[1].resp.state

C7_Witness ==
    /\ cookie_path
    /\ pc = "returned"
    /\ session.id = "login"
    /\ log[1].cookies = <<Cookie(JAAuthCookie, "v1")>>
    /\ store.jar = <<Cookie(JAAuthCookie, "v2")>>

-----------------------------------------------------------------------------
(* Properties of the token exchange, stated over the requests issued and   *)
(* the responses as the servers gave them.                                 *)

\* the request was answered and raise_for_status let the response through
Accepted(e) == e.resp.net = "ok" /\ ~(e.resp.status \in 400..599)

\* the page of a hop carried a form that is not the login form
AnsweredForm(e) ==
    /\ Accepted(e)
    /\ e.resp.form.present
    /\ e.resp.form.has_id
    /\ e.resp.form.id # "login_form"
    /\ \A k \in DOMAIN e.resp.form.inputs : e.resp.form.inputs[k].has_value

AnsweredLoginForm(e) ==
    /\ Accepted(e)
    /\ e.resp.form.present
    /\ e.resp.form.has_id
    /\ e.resp.form.id = "login_form"

AnsweredNoLocation(e) == Accepted(e) /\ ~e.resp.location.present

\* data is exactly the input fields of the form
IsFieldsOf(data, form) ==
    /\ DOMAIN data = {form.inputs[k].name : k \in DOMAIN form.inputs}
    /\ \A k \in DOMAIN form.inputs : data[form.inputs[k].name] = form.inputs[k].value

\* the pieces of a url joined by '?' again
RECURSIVE JoinQuery(_)
JoinQuery(parts) ==
    IF Len(parts) <= 1 THEN parts
    ELSE <<Head(parts), "?">> \o JoinQuery(Tail(parts))

\* the query string of a location: all that follows its first '?'
QueryString(location) == JoinQuery(Tail(location.parts))

\* requests follow each other as the hops of one call for one subject
Follows(i, earlier) ==
    /\ i > 1
    /\ tlog[i - 1].hop = earlier
    /\ tlog[i - 1].subject = tlog[i].subject

\* the order, methods and sources of the first three hops, and the token
\* stored only from an accepted token resolution that ended such a chain
ChainOrder ==
    /\ \A i \in DOMAIN tlog :
         /\ tlog[i].hop = "hop1" =>
              /\ tlog[i].method = "GET"
              /\ tlog[i].url = LtiUrl(tlog[i].subject)
         /\ tlog[i].hop = "hop2" =>
              /\ tlog[i].method = "POST"
              /\ Follows(i, "hop1")
              /\ AnsweredForm(tlog[i - 1])
              /\ tlog[i].url = tlog[i - 1].resp.form.action
              /\ IsFieldsOf(tlog[i].data, tlog[i - 1].resp.form)
         /\ tlog[i].hop = "hop3" =>
              /\ tlog[i].method = "POST"
              /\ ~tlog[i].allow_redirects
              /\ Follows(i, "hop2")
              /\ AnsweredForm(tlog[i - 1])
              /\ tlog[i].url = tlog[i - 1].resp.form.action
              /\ IsFieldsOf(tlog[i].data, tlog[i - 1].resp.form)
         /\ tlog[i].hop = "hop4" =>
              /\ tlog[i].method = "GET"
              /\ Follows(i, "hop3")
              /\ Accepted(tlog[i - 1])
              /\ tlog[i - 1].resp.location.present
              /\ Len(tlog[i - 1].resp.location.parts) >= 2
         /\ (i > 1 /\ tlog[i - 1].hop = "hop1") => tlog[i].hop = "hop2"
         /\ (i > 1 /\ tlog[i - 1].hop = "hop2") => tlog[i].hop = "hop3"
         /\ (i > 1 /\ tlog[i - 1].hop = "hop3") => tlog[i].hop = "hop4"
    /\ \A k \in DOMAIN subjects :
         (subjects[k].has_access_token \/ subjects[k].has_canvas_subject_id) =>
           \E i \in DOMAIN tlog :
             /\ i >= 4
             /\ tlog[i].hop = "hop4"
             /\ tlog[i].subject = subjects[k].id
             /\ Accepted(tlog[i])
             /\ tlog[i].resp.has_data
             /\ subjects[k].access_token = tlog[i].resp.token
             /\ subjects[k].canvas_subject_id = tlog[i].resp.courId

\* C8: get_access_token issues hop 1 (GET of the LTI launch), hop 2 (POST),
\* hop 3 (POST that does not follow redirects) and the token resolution GET in
\* this order, each at most once per call and each only after the one before
\* succeeded; hop 2 and hop 3 go to the action url with the input fields of
\* the form before, the token resolution carries the query string of the
\* Location of hop 3, and a token is stored only after all four.
C8_FourHopsInOrder ==
    /\ ChainOrder
    /\ \A i \in DOMAIN tlog :
         tlog[i].hop = "hop4" =>
           tlog[i].url = <<TokenEndpoint, "?">> \o QueryString(tlog[i - 1].resp.location)

\* what the token resolution carries instead: the text between the first and
\* the second '?' of the Location
C8_FourHopsForwardFirstPiece ==
    /\ ChainOrder
    /\ \A i \in DOMAIN tlog :
         tlog[i].hop = "hop4" =>
           tlog[i].url = <<TokenEndpoint, "?", tlog[i - 1].resp.location.parts[2]>>

\* a token came from a Location with two '?', after all four hops
C8_WitnessTwoMarks ==
    /\ tpc = "done"
    /\ Len(tlog) >= 5
    /\ tlog[Len(tlog)].hop = "hop4"
    /\ Len(tlog[Len(tlog) - 1].resp.location.parts) = 3
    /\ subjects[Len(subjects)].has_access_token

\* the token a subject holds was answered before request i
HeldSince(k, i) ==
    (subjects[k].has_access_token \/ subjects[k].has_canvas_subject_id) =>
      \E j \in 1..(i - 1) :
        /\ tlog[j].hop = "hop4"
        /\ tlog[j].subject = subjects[k].id
        /\ subjects[k].access_token = tlog[j].resp.token
        /\ subjects[k].canvas_subject_id = tlog[j].resp.courId

\* C9: when the page of hop 1 carries the login form, get_access_token fails
\* with the session-expired error (RuntimeError "Login required."): no hop 2,
\* hop 3 or token resolution follows for the subject, and the subject gets no
\* access_token and no canvas_subject_id from the call.
C9_LoginFormEndsExchange ==
    \A i \in DOMAIN tlog :
      (tlog[i].hop = "hop1" /\ AnsweredLoginForm(tlog[i])) =>
        /\ tpc = "failed"
        /\ terror.kind = "RuntimeError"
        /\ \A j \in DOMAIN tlog : j > i => tlog[j].subject # tlog[i].subject
        /\ \A k \in DOMAIN subjects :
             subjects[k].id = tlog[i].subject => HeldSince(k, i)

\* the login form came for the second subject of a later refresh, which keeps
\* the token of the refresh before
C9_Witness ==
    /\ phase = "again"
    /\ tpc = "failed"
    /\ idx = 2
    /\ tlog[Len(tlog)].hop = "hop1"
    /\ AnsweredLoginForm(tlog[Len(tlog)])
    /\ subjects[2].has_access_token

\* C10: when the response of hop 3 carries no Location header,
\* get_access_token fails with a shape error (AttributeError): the token
\* resolution is not requested, and no token, not even an empty one, is
\* returned or stored on the subject.
C10_NoLocationEndsExchange ==
    \A i \in DOMAIN tlog :
      (tlog[i].hop = "hop3" /\ AnsweredNoLocation(tlog[i])) =>
        /\ tpc = "failed"
        /\ terror.kind = "AttributeError"
        /\ \A j \in DOMAIN tlog : j > i => tlog[j].hop # "hop4"
        /\ \A k \in DOMAIN subjects :
             subjects[k].id = tlog[i].subject => HeldSince(k, i)

\* the Location was missing for the second subject, after the first got its
\* token
C10_Witness ==
    /\ tpc = "failed"
    /\ terror.kind = "AttributeError"
    /\ idx = 2
    /\ tlog[Len(tlog)].hop = "hop3"
    /\ AnsweredNoLocation(tlog[Len(tlog)])
    /\ subjects[1].has_access_token
    /\ ~subjects[2].has_access_token

\* the token resolution rejected the request: its code is not 0
AnsweredRejected(e) == Accepted(e) /\ e.resp.code # 0

\* what get_access_token does at a rejected token resolution: it raises the
\* error with the message of the server, and the subject gets nothing
RejectedFails(i) ==
    /\ tpc = "failed"
    /\ terror.kind = "AssertionError"
    /\ terror.payload = <<tlog[i].resp.message>>
    /\ i = Len(tlog)
    /\ \A k \in DOMAIN subjects :
         subjects[k].id = tlog[i].subject => HeldSince(k, i)

\* C11: get_access_token returns a token and courId only when the token
\* resolution answered code 0; for every other code it fails with an error
\* that carries the message of the server, and returns nothing.
C11_TokenOnlyForCodeZero ==
    \A i \in DOMAIN tlog :
      (tlog[i].hop = "hop4" /\ AnsweredRejected(tlog[i])) => RejectedFails(i)

\* the same where the interpreter executes assert statements
C11_TokenOnlyForCodeZeroWithAsserts ==
    ~optimize => C11_TokenOnlyForCodeZero

\* under -O a rejected answer that still carries data gave the subject a token
C11_WitnessRejectedTokenStored ==
    /\ optimize
    /\ Len(tlog) = 5
    /\ AnsweredRejected(tlog[5])
    /\ subjects[1].has_access_token
    /\ subjects[1].access_token = tlog[5].resp.token

\* C12: in every state of CanvasHelper.refresh, also the one a failed token
\* exchange leaves behind, each subject carries both access_token and
\* canvas_subject_id or neither, and carries them only from a token exchange
\* for that subject that returned.
C12_BothOrNeither ==
    \A k \in DOMAIN subjects :
      /\ subjects[k].has_access_token = subjects[k].has_canvas_subject_id
      /\ subjects[k].has_access_token =>
           \E i \in DOMAIN tlog :
             /\ tlog[i].hop = "hop4"
             /\ tlog[i].subject = subjects[k].id
             /\ Accepted(tlog[i])
             /\ tlog[i].resp.has_data
             /\ subjects[k].access_token = tlog[i].resp.token
             /\ subjects[k].canvas_subject_id = tlog[i].resp.courId

\* the exchange of the second subject failed after the first got both fields
C12_Witness ==
    /\ tpc = "failed"
    /\ Len(subjects) = 2
    /\ idx = 2
    /\ subjects[1].has_access_token /\ subjects[1].has_canvas_subject_id
    /\ ~subjects[2].has_access_token /\ ~subjects[2].has_canvas_subject_id

\* the request of a hop did not give what the next step needs
HopFailed(e) ==
    \/ ~Accepted(e)
    \/ e.hop \in {"hop1", "hop2"} /\ ~AnsweredForm(e)
    \/ e.hop = "hop3" /\ (~e.resp.location.present \/ Len(e.resp.location.parts) < 2)
    \/ e.hop = "hop4" /\ (e.resp.code # 0 \/ ~e.resp.has_data)

\* the place of a subject id in the list
PlaceOf(id) == CHOOSE k \in DOMAIN subjects : subjects[k].id = id

\* C13: when the chain of one subject fails at a hop during a refresh over
\* several subjects, only that chain is aborted: refresh is not ended with
\* an error while subjects after it have not had their chains started.
C13_FailureAbortsOnlyChain ==
    \A i \in DOMAIN tlog :
      (/\ tlog[i].hop \in {"hop1", "hop2", "hop3", "hop4"}
       /\ HopFailed(tlog[i])
       /\ i = Len(tlog)
       /\ PlaceOf(tlog[i].subject) < Len(subjects)) =>
        tpc # "failed"

\* what happens instead: the failure ends refresh, and no chain is started
\* for any subject after the failed one
C13_FailureAbortsRefresh ==
    \A i \in DOMAIN tlog :
      (/\ tlog[i].hop \in {"hop1", "hop2", "hop3", "hop4"}
       /\ HopFailed(tlog[i])
       /\ ~(optimize /\ tlog[i].hop = "hop4" /\ tlog[i].resp.has_data)) =>
        /\ tpc = "failed"
        /\ terror # NoError
        /\ i = Len(tlog)

-----------------------------------------------------------------------------
(* Properties of the synchronisation of the courses, stated over the calls *)
(* of the servers and over what the helper held when it was called.        *)

\* the place of the call of refresh or update in the log of a helper used
\* directly (a read of the property courses may come before it)
CallIdx == CHOOSE i \in DOMAIN clog : clog[i].ev = "call"
TheCall == clog[CallIdx]
TheListing == clog[CallIdx + 1]

\* a helper used directly was called with this method
Called(op) ==
    /\ mgr.si = 0
    /\ \E i \in DOMAIN clog : clog[i].ev = "call"
    /\ TheCall.arg = op
PreviousList == TheCall.resp.courses
HadPrevious == TheCall.resp.has_courses

\* the listing of the call was answered (it is the entry after the call)
Listed == Len(clog) > CallIdx /\ Accepted(TheListing)

\* the records the listing named: none for code -1 or for empty data
ListedRecords ==
    IF TheListing.resp.code = -1 \/ ~TheListing.resp.has_data THEN <<>>
    ELSE TheListing.resp.records

IsMedia(e) == e.ev = "media"
MediaCalls == SelectSeq(clog, IsMedia)

Resolved(c) == c.has_download_urls /\ c.download_urls # <<>>
IdsOf(cs) == {cs[i].id : i \in DOMAIN cs}

\* the channels a media answer gives, as the helper stores them
Videos(e) == get_video_url(e.resp).videos

\* the listed records that need their media resolved, in listing order
IsUnresolvedRecord(rec) ==
    \A k \in DOMAIN PreviousList :
      PreviousList[k].id = rec.courId => ~Resolved(PreviousList[k])
ToResolve == SelectSeq(ListedRecords, IsUnresolvedRecord)

\* the media calls so far are for the first of these records, in order, one each
ResolvesInOrder(records) ==
    /\ Len(MediaCalls) <= Len(records)
    /\ \A j \in DOMAIN MediaCalls : MediaCalls[j].arg = records[j].videoId
    /\ cpc = "done" => Len(MediaCalls) = Len(records)

\* C14: update with a previous list in which every course has a non-empty
\* download_urls issues no media resolution and leaves the list equal to the
\* previous one, for every listing the server may return.
C14_ResolvedListUntouched ==
    (Called("update") /\ HadPrevious /\ \A k \in DOMAIN PreviousList : Resolved(PreviousList[k])) =>
      /\ MediaCalls = <<>>
      /\ cpc = "done" => courses = PreviousList

\* the same for the listings that name no course outside the previous list
C14_ResolvedListUntouchedIfNothingNew ==
    (/\ Called("update") /\ HadPrevious
     /\ \A k \in DOMAIN PreviousList : Resolved(PreviousList[k])
     /\ Listed
     /\ \A j \in DOMAIN ListedRecords : ListedRecords[j].courId \in IdsOf(PreviousList)) =>
      /\ MediaCalls = <<>>
      /\ cpc = "done" => courses = PreviousList

\* two resolved courses, listed again in the other order: nothing is resolved
C14_Witness ==
    /\ Called("update")
    /\ cpc = "done"
    /\ Len(PreviousList) = 2
    /\ Resolved(PreviousList[1]) /\ Resolved(PreviousList[2])
    /\ Len(ListedRecords) = 2
    /\ ListedRecords[1].courId = PreviousList[2].id
    /\ courses = PreviousList

\* what refresh gives for the answers in the log: the listed courses in
\* listing order, each with the channels of its own media answer
RefreshOutcome ==
    [j \in DOMAIN ListedRecords |->
       Course(ListedRecords[j].courId, ListedRecords[j].videoName,
              ListedRecords[j].videoId, TRUE, Videos(MediaCalls[j]))]

\* a call that goes the way of refresh: the listing, then one media
\* resolution for every listed course in listing order
LikeRefresh ==
    /\ Len(clog) > CallIdx => TheListing.ev = "listing"
    /\ Listed => ResolvesInOrder(ListedRecords)
    /\ \A i \in DOMAIN clog : i > CallIdx + 1 => IsMedia(clog[i])
    /\ cpc = "done" => courses = RefreshOutcome

\* a media call that gave its channels: answered, no error status, with data
GaveVideos(e) == Accepted(e) /\ e.resp.has_data

\* what refresh leaves in the helper for the answers in the log, also when a
\* media call ended it: the listed courses in listing order, those resolved
\* so far with the channels of their own media answer, the others unresolved
RefreshLeaves ==
    [j \in DOMAIN ListedRecords |->
       IF j <= Len(MediaCalls) /\ GaveVideos(MediaCalls[j])
       THEN Course(ListedRecords[j].courId, ListedRecords[j].videoName,
                   ListedRecords[j].videoId, TRUE, Videos(MediaCalls[j]))
       ELSE Course(ListedRecords[j].courId, ListedRecords[j].videoName,
                   ListedRecords[j].videoId, FALSE, <<>>)]

\* the call has ended, by returning or by an error
Ended == cpc \in {"done", "failed"}

\* a call that goes the way of refresh and leaves what refresh leaves,
\* however it ends
AlwaysLikeRefresh ==
    /\ Len(clog) > CallIdx => TheListing.ev = "listing"
    /\ Listed => ResolvesInOrder(ListedRecords)
    /\ \A i \in DOMAIN clog : i > CallIdx + 1 => IsMedia(clog[i])
    /\ (Ended /\ Listed) => courses = RefreshLeaves

\* refresh itself leaves this list, however it ends
C15_RefreshLeavesPartlyResolved == Called("refresh") => AlwaysLikeRefresh

C15_WitnessFailedUpdateLeavesEmpty ==
    /\ Called("update") /\ HadPrevious /\ PreviousList = <<>>
    /\ cpc = "failed"
    /\ Listed /\ Len(ListedRecords) = 2
    /\ Len(MediaCalls) = 2
    /\ courses = <<>>
    /\ Len(RefreshLeaves) = 2 /\ RefreshLeaves[1].has_download_urls

C16_ResolvesOnlyUnresolved ==
    (Called("update") /\ HadPrevious /\ Listed) =>
      /\ ResolvesInOrder(ToResolve)
      /\ cpc = "done" =>
           \A k \in DOMAIN PreviousList :
             Resolved(PreviousList[k]) =>
               \E i \in DOMAIN courses : courses[i] = PreviousList[k]

\* a resolved and an unresolved course were there, both were listed: one
\* media resolution
C16_Witness ==
    /\ Called("update") /\ HadPrevious
    /\ cpc = "done"
    /\ Len(PreviousList) = 2
    /\ Resolved(PreviousList[1]) /\ ~Resolved(PreviousList[2])
    /\ Len(ListedRecords) = 2
    /\ Len(MediaCalls) = 1
    /\ courses[1] = PreviousList[1]
    /\ Resolved(courses[2])

\* the course of the snapshot the subject at work holds under a video id
HeldResolved(video_id) ==
    \E k \in DOMAIN mgr.subjects[mgr.si].courses :
      /\ mgr.subjects[mgr.si].courses[k].video_id = video_id
      /\ Resolved(mgr.subjects[mgr.si].courses[k])

\* C17: a Manager read from a snapshot and refreshed synchronises each subject
\* by the incremental update: no media resolution for a course the snapshot
\* holds with a non-empty download_urls.
C17_SnapshotCoursesNotResolvedAgain ==
    (mgr.si > 0 /\ mgr.si <= Len(mgr.subjects) /\ cpc \in {"refresh_loop", "update_loop", "failed"}) =>
      \A i \in DOMAIN clog :
        (IsMedia(clog[i]) /\ clog[i].subject = mgr.subjects[mgr.si].id) =>
          ~HeldResolved(clog[i].arg)

\* what happens instead: every subject is synchronised the way of refresh,
\* with one media resolution for every listed course
C17_SnapshotSubjectsRefreshedInFull ==
    mgr.si > 0 =>
      \A i \in DOMAIN clog :
        clog[i].ev = "call" =>
          /\ ~clog[i].resp.has_courses
          /\ i < Len(clog) => clog[i + 1].ev = "listing"

\* the first course of the snapshot, resolved there, was resolved again
C17_WitnessResolvedAgain ==
    /\ mgr.si = 1
    /\ cpc = "refresh_loop"
    /\ Len(MediaCalls) = 1
    /\ HeldResolved(MediaCalls[1].arg)

\* C18: refresh with a listing of code -1 or of empty data gives an empty
\* list, raises nothing and resolves nothing; otherwise it resolves the media
\* exactly once for every listed course, in listing order, whatever was held
\* before, and every course of the result carries the download_urls resolved
\* in this call.
C18_RefreshResolvesAll ==
    (Called("refresh") /\ Listed) =>
      /\ (TheListing.resp.code = -1 \/ ~TheListing.resp.has_data) =>
           /\ cpc = "done"
           /\ cerror = NoError
           /\ courses = <<>>
           /\ MediaCalls = <<>>
      /\ ResolvesInOrder(ListedRecords)
      /\ cpc = "done" =>
           /\ Len(courses) = Len(ListedRecords)
           /\ \A j \in DOMAIN courses :
                /\ courses[j].id = ListedRecords[j].courId
                /\ courses[j].has_download_urls
                /\ courses[j].download_urls = Videos(MediaCalls[j])

\* a helper that held resolved courses got code -1 and holds none
C18_WitnessMinusOne ==
    /\ Called("refresh") /\ HadPrevious
    /\ Len(PreviousList) = 2
    /\ Resolved(PreviousList[1])
    /\ Listed
    /\ TheListing.resp.code = -1
    /\ cpc = "done"
    /\ courses = <<>>

-----------------------------------------------------------------------------
(* Properties of get_video_url and of the manifest.                        *)

\* the places of the descriptors with a zero / a non-zero view count
ZeroViewed == {i \in DOMAIN fin : fin[i].cdviViewNum = 0}
Viewed == {i \in DOMAIN fin : fin[i].cdviViewNum # 0}
LastOf(S) == CHOOSE i \in S : \A j \in S : j <= i

\* key n of the result is there exactly for a non-empty class, with the url of
\* the last descriptor of the class
ClassKey(n, class) ==
    /\ (\E i \in DOMAIN fout : fout[i].k = IntKey(n)) <=> class # {}
    /\ class # {} =>
         \E i \in DOMAIN fout :
           fout[i].k = IntKey(n) /\ fout[i].v = fin[LastOf(class)].rtmpUrlHdv

\* C19: get_video_url gives keys in {0, 1} only, key 0 with the url of a
\* descriptor of view count zero and key 1 with the url of one of non-zero view
\* count (the last of the class in the sequence), a key is absent exactly when
\* its class is empty, and [{0, A}, {5, B}] gives {0: A, 1: B}.
C19_ChannelsByViewCount ==
    fpc = "video_done" =>
      /\ \A i \in DOMAIN fout : fout[i].k \in {IntKey(0), IntKey(1)}
      /\ \A i, j \in DOMAIN fout : fout[i].k = fout[j].k => i = j
      /\ ClassKey(0, ZeroViewed)
      /\ ClassKey(1, Viewed)
      /\ fin = <<Descriptor(0, "A"), Descriptor(5, "B")>> =>
           fout = <<Item(IntKey(0), "A"), Item(IntKey(1), "B")>>

\* three descriptors, two of them viewed: key 1 holds the url of the later
C19_Witness ==
    /\ fpc = "video_done"
    /\ fin = <<Descriptor(5, "B"), Descriptor(0, "A"), Descriptor(12, "A")>>
    /\ fout = <<Item(IntKey(1), "A"), Item(IntKey(0), "A")>>

\* the entries of download_urls of the selected courses, in the order of the
\* selection
RECURSIVE Flatten(_)
Flatten(ss) == IF ss = <<>> THEN <<>> ELSE Head(ss) \o Flatten(Tail(ss))

SelectedEntries ==
    Flatten([i \in DOMAIN fin.course_ids |->
      Flatten([j \in DOMAIN fin.course_ids[i].v |->
        LET subj == DictGet(fin.subjects, fin.course_ids[i].k)
        IN DictGet(subj.courses, fin.course_ids[i].v[j]).download_urls])])

JobsFor(entry) == {i \in DOMAIN fout : fout[i].url = entry.v}
SecondaryKey(k) == k = IntKey(1) \/ k = StrKey(1)
NotSecondary(entry) == ~SecondaryKey(entry.k)

\* C20: built without the secondary channel, the manifest has no job of a
\* channel key 1 (the int 1 or the str "1" of a snapshot) and exactly one job
\* for every other channel entry of every selected course; built with it, it
\* has one job for every channel entry.
C20_SecondaryChannelOnlyOnRequest ==
    fpc = "manifest_done" =>
      /\ \A e \in DOMAIN SelectedEntries :
           Cardinality(JobsFor(SelectedEntries[e])) =
             IF ~fin.with_screen_record /\ SecondaryKey(SelectedEntries[e].k) THEN 0 ELSE 1
      /\ Len(fout) = IF fin.with_screen_record THEN Len(SelectedEntries)
                     ELSE Len(SelectSeq(SelectedEntries, NotSecondary))
      /\ ~fin.with_screen_record => \A i \in DOMAIN fout : fout[i].out[5] # 1

\* two courses were selected whose keys came back from a snapshot as str: only
\* the jobs of key "0" are there
C20_Witness ==
    /\ fpc = "manifest_done"
    /\ ~fin.with_screen_record
    /\ fin.course_ids = <<Item("101", <<1, 2>>)>>
    /\ \A e \in DOMAIN SelectedEntries : SelectedEntries[e].k.type = "str"
    /\ Len(SelectedEntries) = 4
    /\ Len(fout) = 2

\* the subject and the course a job was built for, read from its url
JobSubject(i) == fout[i].url[1][2]
JobCourse(i) == fout[i].url[1][3]
ManifestCourse(subject_id, course_id) ==
    DictGet(DictGet(fin.subjects, subject_id).courses, course_id)
JobCourseName(i) == ManifestCourse(JobSubject(i), JobCourse(i)).name

\* the entry is written to the manifest
Emitted(entry) == fin.with_screen_record \/ entry.k.n # 1

\* the last piece of the url before its '?', after the last '.'
ExtensionOf(entry) == entry.v[1][Len(entry.v[1])]

\* two courses of one selected subject with the same name: their entries of
\* the same channel and extension give two jobs with one output path
SameNameCollides(subject_id, c1, c2) ==
    LET a == ManifestCourse(subject_id, c1)
        b == ManifestCourse(subject_id, c2)
    IN (c1 # c2 /\ a.name = b.name) =>
         \A x \in DOMAIN a.download_urls, y \in DOMAIN b.download_urls :
           (/\ a.download_urls[x].k.n = b.download_urls[y].k.n
            /\ ExtensionOf(a.download_urls[x]) = ExtensionOf(b.download_urls[y])
            /\ Emitted(a.download_urls[x])) =>
             \E i, j \in DOMAIN fout :
               /\ i # j
               /\ fout[i].url = a.download_urls[x].v
               /\ fout[j].url = b.download_urls[y].v
               /\ fout[i].out = fout[j].out

\* C21: in one manifest, jobs of selected courses with distinct names in the
\* same subject have pairwise distinct output paths; two selected courses of
\* one subject with the same name give the same output path for the same
\* channel and extension, and both jobs are in the manifest.
C21_PathsCollideOnlyOnEqualNames ==
    fpc = "manifest_done" =>
      /\ \A i, j \in DOMAIN fout :
           (i # j /\ JobSubject(i) = JobSubject(j) /\ JobCourseName(i) # JobCourseName(j)) =>
             fout[i].out # fout[j].out
      /\ \A s \in DOMAIN fin.course_ids :
           \A m, n \in DOMAIN fin.course_ids[s].v :
             SameNameCollides(fin.course_ids[s].k, fin.course_ids[s].v[m], fin.course_ids[s].v[n])

\* two courses named alike were selected: two jobs, one output path
C21_Witness ==
    /\ fpc = "manifest_done"
    /\ fin.course_ids = <<Item("101", <<1, 2>>)>>
    /\ ManifestCourse("101", 1).name = ManifestCourse("101", 2).name
    /\ Len(fout) = 2
    /\ fout[1].out = fout[2].out
    /\ fout[1].url # fout[2].url

-----------------------------------------------------------------------------
(* Properties of format_srt_timestamp.                                     *)

RECURSIVE NumberOf(_)
\* the number a sequence of decimal digits stands for
NumberOf(d) ==
    IF d = <<>> THEN 0 ELSE 10 * NumberOf(SubSeq(d, 1, Len(d) - 1)) + d[Len(d)]

\* a field is written with at least width digits, and with no more than the
\* number needs
Rendered(d, width) ==
    /\ Len(d) >= width
    /\ \A i \in DOMAIN d : d[i] \in 0..9
    /\ Len(d) > width => d[1] # 0

\* C22: for m >= 0, format_srt_timestamp(m) has the fields H = m div 3600000
\* (not wrapped at 24), 0 <= M < 60, 0 <= S < 60, 0 <= ms < 1000 with
\* H*3600000 + M*60000 + S*1000 + ms = m, zero-padded to at least 2, 2, 2 and
\* 3 digits; format_srt_timestamp(3723045) is "01:02:03,045".
C22_SrtTimestamp ==
    fpc = "srt_done" =>
      /\ Len(fout) = 7
      /\ <<fout[2], fout[4], fout[6]>> = <<":", ":", ",">>
      /\ Rendered(fout[1], 2) /\ Rendered(fout[3], 2)
      /\ Rendered(fout[5], 2) /\ Rendered(fout[7], 3)
      /\ NumberOf(fout[1]) = fin \div 3600000
      /\ NumberOf(fout[3]) \in 0..59
      /\ NumberOf(fout[5]) \in 0..59
      /\ NumberOf(fout[7]) \in 0..999
      /\ NumberOf(fout[1]) * 3600000 + NumberOf(fout[3]) * 60000
           + NumberOf(fout[5]) * 1000 + NumberOf(fout[7]) = fin
      /\ fin = 3723045 =>
           fout = <<<<0, 1>>, ":", <<0, 2>>, ":", <<0, 3>>, ",", <<0, 4, 5>>>>

\* a hundred hours are written with three digits
C22_Witness ==
    /\ fpc = "srt_done"
    /\ fin = 100 * 3600000 + 59 * 60000 + 3 * 1000 + 45
    /\ fout = <<<<1, 0, 0>>, ":", <<5, 9>>, ":", <<0, 3>>, ",", <<0, 4, 5>>>>

-----------------------------------------------------------------------------
(* Further properties of login.                                            *)

\* the value of the first pair of a query under a key ("" when there is none)
FirstValue(query, key) ==
    LET S == {i \in DOMAIN query : query[i][1] = key}
    IN IF S = {} THEN "" ELSE query[CHOOSE i \in S : \A j \in S : i <= j][2]

\* the uuid of the anchor of the challenge page the probe was answered with
AnchorUuid == FirstValue(log[2].resp.anchor.query, "uuid")

UsesUuid(e) == e.ev \in {"captcha", "submit"}

\* C23: within one call every captcha fetch and every submit uses the same
\* uuid, the one taken from the query of the anchor of the challenge page; a
\* query parameter of the resolved url never takes its place, and a wrong
\* captcha leads to a new image fetch with that uuid.
C23_UuidOfAnchorThroughout ==
    \A i \in DOMAIN log :
      UsesUuid(log[i]) =>
        /\ log[i].form["uuid"] = <<AnchorUuid>>
        /\ (log[i].ev = "submit" /\ AnsweredWrongCaptcha(log[i]) /\ i < Len(log)) =>
             /\ log[i + 1].ev = "captcha"
             /\ log[i + 1].form["uuid"] = <<AnchorUuid>>

\* what holds instead: one uuid throughout, which is the uuid parameter of the
\* resolved url when there is one and the uuid of the anchor otherwise
C23_UuidOfQueryFirst ==
    \A i \in DOMAIN log :
      UsesUuid(log[i]) =>
        log[i].form["uuid"] =
          IF FirstValue(log[2].resp.url.query, "uuid") # ""
          THEN <<FirstValue(log[2].resp.url.query, "uuid")>>
          ELSE <<AnchorUuid>>

\* a submit went out with the uuid of the resolved url, not the anchor's
C23_WitnessQueryUuidSubmitted ==
    /\ Len(SubmitSeq) >= 1
    /\ AnchorUuid = "u1"
    /\ SubmitSeq[1].form["uuid"] = <<"u2">>

\* the identity provider answered a submit neither with a wrong captcha nor
\* with wrong credentials: with errno 0, with an unknown code, or not at all
AnsweredOtherwise(e) ==
    e.ev = "submit" /\ ~AnsweredWrongCaptcha(e) /\ ~AnsweredWrongCredentials(e)

SomeSubmitAnsweredOtherwise == \E i \in DOMAIN log : AnsweredOtherwise(log[i])

\* wrong answers, however many, leave login at a prompt or at the captcha
\* fetch; a request that failed is the last one
NoBoundNoRetry ==
    /\ \A i \in DOMAIN log :
         (/\ i = Len(log)
          /\ log[i].ev = "submit"
          /\ (AnsweredWrongCaptcha(log[i]) \/ AnsweredWrongCredentials(log[i]))) =>
           pc \in {"get_captcha", "ask_user"}
    /\ \A i \in DOMAIN log :
         (IsHttp(log[i]) /\ ~Delivered(log[i])) => (i = Len(log) /\ pc = "failed")

\* C24: the retry loop has no bound and transport failures are not retried:
\* login never fails for the number of wrong-captcha or wrong-credentials
\* answers, and every run in which a submit is answered otherwise (errno 0,
\* an unknown code, a transport failure) ends in a returned session or in an
\* error.
C24_UnboundedRetriesThenEnd ==
    /\ []NoBoundNoRetry
    /\ SomeSubmitAnsweredOtherwise ~> Terminal

\* a wrong captcha, then wrong credentials, then errno 0: a session
C24_Witness ==
    /\ pc = "returned"
    /\ Len(SubmitSeq) = 3
    /\ AnsweredWrongCaptcha(SubmitSeq[1])
    /\ AnsweredWrongCredentials(SubmitSeq[2])
    /\ AnsweredErrno0(SubmitSeq[3])

\* the probe was answered from outside the identity provider
ProbeOutside(e) ==
    /\ e.ev = "probe"
    /\ Delivered(e)
    /\ e.resp.status = 200
    /\ e.resp.url.netloc # "jaccount.sjtu.edu.cn"

\* C25: login returns a session only if the probe resolved outside the
\* identity provider or a submit was answered errno 0; every other path, also
\* a method that is neither 'pwd' nor 'qr', with or without a cookie path,
\* ends in an error and hands back no session.
C25_SessionOnlyIfAuthenticated ==
    /\ (pc = "returned" \/ session # NoSession) =>
         \E i \in DOMAIN log :
           ProbeOutside(log[i]) \/ (log[i].ev = "submit" /\ AnsweredErrno0(log[i]))
    /\ (/\ method \notin {"pwd", "qr"}
        /\ \E i \in DOMAIN log : log[i].ev = "probe" /\ ~ProbeOutside(log[i])) =>
         /\ pc = "failed"
         /\ error # NoError
         /\ session = NoSession

\* another method, no cookie path, the probe ended at the identity provider:
\* TypeError, no session
C25_Witness ==
    /\ method = "other"
    /\ ~cookie_path
    /\ pc = "failed"
    /\ error.kind = "TypeError"
    /\ \E i \in DOMAIN log :
         /\ log[i].ev = "probe"
         /\ Delivered(log[i])
         /\ log[i].resp.anchor.present

\* the ids of a list of courses, in its order
IdSeq(cs) == [i \in DOMAIN cs |-> cs[i].id]
IsNewRecord(rec) == rec.courId \notin IdsOf(PreviousList)
NewRecords == SelectSeq(ListedRecords, IsNewRecord)

\* the media call for a listed video
MediaCallFor(video_id) ==
    MediaCalls[CHOOSE j \in DOMAIN MediaCalls : MediaCalls[j].arg = video_id]

FreshRecord(rec) ==
    Course(rec.courId, rec.videoName, rec.videoId, TRUE, Videos(MediaCallFor(rec.videoId)))

\* C26: after update took the merge path the list holds every id of the
\* previous list, also those the listing does not name any more, and every id
\* of the listing, none twice; the previous courses keep their order and the
\* new ones follow them; a course that was unresolved is replaced at its place
\* by the fresh record.
C26_MergeKeepsOrder ==
    (Called("update") /\ HadPrevious /\ Listed /\ cpc = "done") =>
      /\ IdSeq(courses) = IdSeq(PreviousList) \o [j \in DOMAIN NewRecords |-> NewRecords[j].courId]
      /\ \A i, j \in DOMAIN courses : courses[i].id = courses[j].id => i = j
      /\ \A k \in DOMAIN PreviousList :
           \A j \in DOMAIN ListedRecords :
             (ListedRecords[j].courId = PreviousList[k].id /\ ~Resolved(PreviousList[k])) =>
               courses[k] = FreshRecord(ListedRecords[j])

\* of two previous courses the unresolved first was listed again and the
\* second was not: both are there, the first one fresh
C26_Witness ==
    /\ Called("update") /\ HadPrevious /\ cpc = "done"
    /\ Len(PreviousList) = 2
    /\ ~Resolved(PreviousList[1])
    /\ Len(ListedRecords) = 1
    /\ ListedRecords[1].courId = PreviousList[1].id
    /\ Len(courses) = 2
    /\ courses[1].name = "lecture"
    /\ Resolved(courses[1])
    /\ courses[2] = PreviousList[2]

=============================================================================
